---- MODULE Spec2Model ----
(***************************************************************************)
(* Site-ingestion saga of the guide RAG service (rag_ingest_site in        *)
(* main.py), the pause signal sent by the front end (send_pause_event in   *)
(* streamlit_app.py) and the host's per-catalog concurrency key.           *)
(*                                                                         *)
(* One saga run is a sequence of host steps (ctx.step.run, send_event,     *)
(* wait_for_event); pc is the step the run is suspended at.  A host step   *)
(* either returns or raises; the Python code between two steps runs        *)
(* synchronously and is part of the action of the step that precedes it.   *)
(***************************************************************************)
EXTENDS Integers, Sequences, FiniteSets, TLC

\* ---- bounds of the model -------------------------------------------------
MaxGuides == 6
ScenarioGuides == 12
MaxIdless == 1
MaxFailures == 2
MaxRuns == 2
MaxChunks == 2
MaxTriggers == 3
MaxPages == 2
MaxDocSteps == 2
MaxParts == 2
MaxResults == 3
MaxStarts == 2
MaxPauses == 2
MaxNegative == 2

\* ---- program constants ---------------------------------------------------
PageSize == 200
PauseEvery == 5
ChunkLimit == 1000
DefaultSiteId == "hansaw"
PauseEventName == "rag/pause_site_ingestion"

SiteIds == {"hansaw", "siteB"}

VARIABLES
    catalog,       \* the content source's guide summaries, in catalog order
    event,         \* ctx.event.data of the current run
    pc,            \* the host step the run is suspended at
    all_guides,    \* accumulated listing
    offset,        \* paging offset of the listing loop
    i,             \* loop index of the processing loop
    processed,
    total_chunks,
    errors,
    sent,          \* rag/site_progress events emitted by the current run
    result,        \* what the run returned (or that it raised)
    pending,       \* pause events sent and not yet taken by a wait_for_event
    attempted,     \* history: loop indices whose ingestion step ran, this run
    checked,       \* history: loop indices at which wait_for_event ran, this run
    pausedBy,      \* history: the pause event the run's wait_for_event took
    earlyPause,    \* history: a pause for this catalog was sent with >= PauseEvery guides left
    chain,         \* history: loop indices attempted over the whole pause/resume chain
    runNo,         \* history: number of the current run in the chain
    offset0,       \* history: resume_offset of the first run of the chain
    faithful,      \* history: every later run of the chain started at the offset the run before it returned
    requests,      \* history: the (offset, limit) of every listing page the run asked for
    queued,        \* host: rag/ingest_site trigger events not yet admitted
    active,        \* host: trigger events whose run is executing
    finished,      \* host: trigger events whose run has ended
    index,         \* the vector index: the set of points it holds
    steps,         \* the single-guide ingestion steps under way, by step number
    doc,           \* chunking: the guide document fetch_guide returned
    text_sections, \* chunking: what extract_guide_text returned
    image_sections,\* chunking: what extract_guide_images returned
    aligned,       \* chunking: what load_and_chunk_guide_with_media returned
    alignPc,       \* chunking: how far the function has come
    results,       \* retrieval: the scored points the index returned, in rank order
    found,         \* retrieval: what QdrantStorage.search returned
    retrieved,     \* retrieval: the RAGSearchResult of _retrieve_context
    searchPc,      \* retrieval: how far the query has come
    reads,         \* retrieval: the last read operation on the index and what it returned
    chat,          \* chat: the request of chat_endpoint, its collaborator calls and its reply
    front          \* front end: the session state of the site ingestion panel and its runs

sagaVars == <<catalog, event, pc, all_guides, offset, i, processed, total_chunks,
              errors, sent, result, pending, attempted, checked, pausedBy,
              earlyPause, chain, runNo, offset0, faithful, requests>>
hostVars == <<queued, active, finished>>
ingestVars == <<index, steps>>
alignVars == <<doc, text_sections, image_sections, aligned, alignPc>>
searchVars == <<results, found, retrieved, searchPc>>
uiVars == <<reads, chat, front>>
pureVars == <<alignVars, searchVars, uiVars>>
vars == <<sagaVars, hostVars, ingestVars, pureVars>>

\* No guide is being chunked.
AlignIdle ==
    /\ doc = <<>>
    /\ text_sections = <<>>
    /\ image_sections = <<>>
    /\ aligned = <<>>
    /\ alignPc = "idle"

\* No query is being answered.
SearchIdle ==
    /\ results = <<>>
    /\ found = <<>>
    /\ retrieved = <<>>
    /\ searchPc = "idle"

\* No read operation, chat request or front-end session is under way.
UiIdle ==
    /\ reads = <<>>
    /\ chat = <<>>
    /\ front = <<>>

NoResult == [status |-> "none"]

\* ---- the content source --------------------------------------------------

\* dict.get(key, default): a dict is a record that holds only the keys present.
Get(d, key, default) == IF key \in DOMAIN d THEN d[key] ELSE default

\* None, as returned by dict.get without a default; it is falsy like 0.
None == 0

\* The k-th guide summary of a catalog: guides in idless carry no "guideid",
\* every second guide carries no "title".
Summary(k, idless) ==
    LET id == IF k \in idless THEN <<>> ELSE [guideid |-> k]
        ti == IF k % 2 = 0 THEN <<>> ELSE [title |-> <<"title", k>>]
    IN  [f \in (DOMAIN id) \cup (DOMAIN ti) |-> IF f \in DOMAIN id THEN id[f] ELSE ti[f]]

\* The loop indices of a ScenarioGuides catalog at which a pause check is due.
PauseIndices == {j \in 1..(ScenarioGuides - 1) : j % PauseEvery = 0}

\* The catalogs a run is checked on: every catalog of up to MaxGuides guides of
\* which at most MaxIdless carry no id, and two of ScenarioGuides guides: one in
\* which every guide carries an id, one in which the guides at the loop
\* indices where a pause check is due carry none.
Catalogs ==
    { [k \in 1..n |-> Summary(k, idless)] :
        n \in 0..MaxGuides, idless \in {s \in SUBSET (1..MaxGuides) : Cardinality(s) <= MaxIdless} }
    \cup { [k \in 1..ScenarioGuides |-> Summary(k, {})],
           [k \in 1..ScenarioGuides |-> Summary(k, {j + 1 : j \in PauseIndices})] }

Min(a, b) == IF a < b THEN a ELSE b

\* fetch_guide_list(token, offset, limit): one page of the listing.
fetch_guide_list(off, limit) ==
    SubSeq(catalog, off + 1, Min(off + limit, Len(catalog)))

\* load_and_chunk_guide(guide_id, token), reduced to the number of chunks it
\* returns: the content source holds, for guide gid, a document of this many chunks.
load_and_chunk_guide(gid) == gid % (MaxChunks + 1)

\* ---- values computed by rag_ingest_site ----------------------------------

site_id == Get(event, "site_id", DefaultSiteId)
resume_offset == Get(event, "resume_offset", 0)
total_guides == Len(all_guides)
\* all_guides[j]: a negative index counts from the end of the list, and an index
\* outside -len..len-1 raises IndexError.
InRange(j) == j >= -total_guides /\ j < total_guides
GuideAt(j) == IF j >= 0 THEN all_guides[j + 1] ELSE all_guides[total_guides + j + 1]
guide_summary == GuideAt(i)
guide_id == Get(guide_summary, "guideid", None)
current_guide == Get(guide_summary, "title", <<"Guide", guide_id>>)

\* ---- IEEE 754 double arithmetic of the percentage --------------------------

\* Numbers too long for an integer of the model are sequences of binary
\* digits, most significant first.  The arithmetic works on up to LimbBits
\* digits at a time and serves total_guides below 2^ShiftBits.
LimbBits == 20
ShiftBits == 15

\* The digits of n (0 <= n < 2^30), and n in exactly w digits.
Width(n) == CHOOSE w \in 0..30 : n < 2^w /\ (w = 0 \/ n >= 2^(w - 1))
InDigits(n, w) == [k \in 1..w |-> (n \div 2^(w - k)) % 2]
ToBits(n) == InDigits(n, Width(n))

\* The integer of at most 30 digits.
RECURSIVE ToInt(_)
ToInt(bits) ==
    IF Len(bits) = 0 THEN 0
    ELSE IF Len(bits) = 1 THEN bits[1]
    ELSE LET h == Len(bits) \div 2
         IN  ToInt(SubSeq(bits, 1, h)) * 2^(Len(bits) - h)
                 + ToInt(SubSeq(bits, h + 1, Len(bits)))

Zeros(n) == [k \in 1..n |-> 0]

AllZero(bits) == \A k \in 1..Len(bits) : bits[k] = 0

\* The digits from the first 1 on.
StripZeros(bits) ==
    IF AllZero(bits) THEN <<>>
    ELSE LET first == CHOOSE k \in 1..Len(bits) :
                          bits[k] = 1 /\ \A j \in 1..(k - 1) : bits[j] = 0
         IN  SubSeq(bits, first, Len(bits))

\* bits + 1
Increment(bits) ==
    IF \A k \in 1..Len(bits) : bits[k] = 1 THEN <<1>> \o Zeros(Len(bits))
    ELSE LET last == CHOOSE k \in 1..Len(bits) :
                         bits[k] = 0 /\ \A j \in (k + 1)..Len(bits) : bits[j] = 1
         IN  SubSeq(bits, 1, last - 1) \o <<1>> \o Zeros(Len(bits) - last)

\* bits * c + carry for a small factor c, LimbBits digits at a time from the right.
RECURSIVE TimesFrom(_, _, _)
TimesFrom(bits, c, carry) ==
    IF Len(bits) <= LimbBits THEN ToBits(ToInt(bits) * c + carry)
    ELSE LET cut == Len(bits) - LimbBits
             low == ToInt(SubSeq(bits, cut + 1, Len(bits))) * c + carry
         IN  TimesFrom(SubSeq(bits, 1, cut), c, low \div 2^LimbBits)
                 \o InDigits(low % 2^LimbBits, LimbBits)

Times(bits, c) == TimesFrom(bits, c, 0)

\* What is left of r (0 <= r < t) after k binary digits of r / t:
\* (r * 2^k) % t, ShiftBits digits at a time.
RECURSIVE Rest2(_, _, _)
Rest2(r, t, k) ==
    IF k <= ShiftBits THEN (r * 2^k) % t
    ELSE Rest2((r * 2^ShiftBits) % t, t, k - ShiftBits)

\* The first n binary digits of r / t after the point.
FracBits(r, t, n) == [k \in 1..n |-> (2 * Rest2(r, t, k - 1)) \div t]

\* The zeros of r / t between the point and its first 1.
LeadingZeros(r, t) ==
    IF r = 0 THEN 0
    ELSE CHOOSE z \in 0..(ShiftBits - 1) : r * 2^z < t /\ r * 2^(z + 1) >= t

\* The digits of a double's significand.
Mantissa == 53

\* A double: m * 2^e with m of at most Mantissa digits.  The value bits * 2^e
\* (plus something below its last digit when sticky) rounded to the nearest
\* double, ties to even.
RoundDouble(bits, e, sticky) ==
    LET b == StripZeros(bits)
    IN  IF Len(b) <= Mantissa
        THEN [m |-> b, e |-> e]
        ELSE LET keep == SubSeq(b, 1, Mantissa)
                 drop == SubSeq(b, Mantissa + 1, Len(b))
                 more == ~AllZero(Tail(drop)) \/ sticky
                 up   == drop[1] = 1 /\ (more \/ keep[Mantissa] = 1)
                 r    == IF up THEN Increment(keep) ELSE keep
             IN  IF Len(r) > Mantissa
                 THEN [m |-> SubSeq(r, 1, Mantissa), e |-> e + Len(drop) + 1]
                 ELSE [m |-> r, e |-> e + Len(drop)]

\* p / t in double arithmetic (p >= 0, t > 0).
FloatDiv(p, t) ==
    LET n == Mantissa + 1 + LeadingZeros(p % t, t)
    IN  RoundDouble(ToBits(p \div t) \o FracBits(p % t, t, n), -n, Rest2(p % t, t, n) # 0)

\* f * c in double arithmetic, c a small integer.
FloatTimes(f, c) == RoundDouble(Times(f.m, c), f.e, FALSE)

\* round(f, 1) in tenths: the decimal of one digit nearest to the exact
\* value of the double f, ties to even.
RoundTenths(f) ==
    LET n     == Times(f.m, 10)
        cut   == Len(n) + f.e
        whole == IF f.e >= 0 THEN ToInt(n \o Zeros(f.e))
                 ELSE IF cut <= 0 THEN 0 ELSE ToInt(SubSeq(n, 1, cut))
        frac  == IF f.e >= 0 THEN <<>>
                 ELSE IF cut <= 0 THEN Zeros(-cut) \o n
                 ELSE SubSeq(n, cut + 1, Len(n))
        up    == /\ frac # <<>>
                 /\ frac[1] = 1
                 /\ (~AllZero(Tail(frac)) \/ whole % 2 = 1)
    IN  whole + (IF up THEN 1 ELSE 0)

\* round((processed / total_guides) * 100, 1), in tenths of a percent.
FloatPercentage(p, t) == RoundTenths(FloatTimes(FloatDiv(p, t), 100))

\* The percentages of the catalog sizes of the model, computed once.
Totals == {Len(c) : c \in Catalogs} \cup {PageSize}
Percentages == [t \in Totals \ {0} |-> [p \in 0..(t + MaxNegative) |-> FloatPercentage(p, t)]]

Percentage(p, t) ==
    IF t \in DOMAIN Percentages /\ p \in DOMAIN Percentages[t] THEN Percentages[t][p]
    ELSE FloatPercentage(p, t)

\* ---- the processing loop between two host steps --------------------------

HasId(j) == Get(GuideAt(j), "guideid", None) # None

\* A loop without the `if not guide_id: continue` guard.
NextIndex_NoSkip(j) == j

\* for i in range(resume_offset, len(all_guides)): ... if not guide_id: continue
\* The first loop index at or after j that is not skipped, or the end of the range.
RECURSIVE NextIndex(_)
NextIndex(j) ==
    IF j >= total_guides THEN j
    ELSE IF ~HasId(j) THEN NextIndex(j + 1)
    ELSE j

\* if i > 0 and i % 5 == 0: wait_for_event(...)
PauseCheckDue(j) == j > 0 /\ j % PauseEvery = 0

\* The loop runs from index j to its next host step.
LoopFrom(j) ==
    LET n == NextIndex(j)
    IN  /\ i' = n
        /\ pc' = IF n >= total_guides THEN "completed"
                 ELSE IF PauseCheckDue(n) THEN "pause_check"
                 ELSE "process_guide"

\* A loop that starts one guide late.
FirstIndex_OffByOne == resume_offset + 1

\* range(resume_offset, len(all_guides)): the index the loop starts at.
FirstIndex == resume_offset

\* A host step raised outside the loop's try block: the run ends with the exception.
Raise(step) ==
    /\ pc' = "done"
    /\ result' = [status |-> "failed", step |-> step]

\* The positions of a run inside the processing loop.
Processing == pc \in {"pause_check", "paused", "process_guide", "progress", "error"}

\* Guides with an id at loop indices after the current one.
Remaining == Cardinality({j \in (i + 1)..(total_guides - 1) : HasId(j)})

\* ---- the saga's host steps -----------------------------------------------

\* step.run("init-progress"): the progress dict it returns is not read again.
InitProgress ==
    /\ pc = "init_progress"
    /\ \/ pc' = "fetch_list" /\ UNCHANGED result
       \/ Raise("init-progress")
    /\ UNCHANGED <<catalog, event, all_guides, offset, i, processed, total_chunks, errors,
                   sent, pending, attempted, checked, pausedBy, earlyPause, chain, runNo,
                   offset0, faithful>>
    /\ UNCHANGED <<requests, hostVars, ingestVars, pureVars>>

\* A paging loop that also stops after a full page.
FetchList_StopsOnFullPage ==
    /\ pc = "fetch_list"
    /\ requests' = Append(requests, [offset |-> offset, limit |-> PageSize])
    /\ \/ /\ UNCHANGED result
          /\ LET batch == fetch_guide_list(offset, PageSize)
             IN  IF batch = <<>>
                 THEN /\ pc' = "update_progress"
                      /\ UNCHANGED <<all_guides, offset>>
                 ELSE /\ all_guides' = all_guides \o batch
                      /\ IF Len(batch) <= PageSize
                         THEN pc' = "update_progress" /\ offset' = offset
                         ELSE pc' = "fetch_list" /\ offset' = offset + PageSize
       \/ Raise("fetch-list") /\ UNCHANGED <<all_guides, offset>>
    /\ UNCHANGED <<catalog, event, i, processed, total_chunks, errors, sent, pending,
                   attempted, checked, pausedBy, earlyPause, chain, runNo, offset0, faithful>>
    /\ UNCHANGED <<hostVars, ingestVars, pureVars>>

\* step.run("fetch-list-{offset}") and the paging loop around it.
FetchList ==
    /\ pc = "fetch_list"
    /\ requests' = Append(requests, [offset |-> offset, limit |-> PageSize])
    /\ \/ /\ UNCHANGED result
          /\ LET batch == fetch_guide_list(offset, PageSize)
             IN  IF batch = <<>>
                 THEN /\ pc' = "update_progress"
                      /\ UNCHANGED <<all_guides, offset>>
                 ELSE /\ all_guides' = all_guides \o batch
                      /\ IF Len(batch) < PageSize
                         THEN pc' = "update_progress" /\ offset' = offset
                         ELSE pc' = "fetch_list" /\ offset' = offset + PageSize
       \/ Raise("fetch-list") /\ UNCHANGED <<all_guides, offset>>
    /\ UNCHANGED <<catalog, event, i, processed, total_chunks, errors, sent, pending,
                   attempted, checked, pausedBy, earlyPause, chain, runNo, offset0, faithful>>
    /\ UNCHANGED <<hostVars, ingestVars, pureVars>>

\* send_event("update-progress"), then the loop up to its first host step.
UpdateProgress ==
    /\ pc = "update_progress"
    /\ \/ /\ sent' = Append(sent, [site_id |-> site_id, total_guides |-> total_guides,
                                   processed_guides |-> 0, status |-> "fetching"])
          /\ IF FirstIndex < total_guides /\ ~InRange(FirstIndex)
             THEN Raise("guide-summary") /\ i' = FirstIndex
             ELSE LoopFrom(FirstIndex) /\ UNCHANGED result
       \/ Raise("update-progress") /\ UNCHANGED <<sent, i>>
    /\ processed' = 0
    /\ total_chunks' = 0
    /\ errors' = <<>>
    /\ UNCHANGED <<catalog, event, all_guides, offset, pending, attempted, checked,
                   pausedBy, earlyPause, chain, runNo, offset0, faithful>>
    /\ UNCHANGED <<requests, hostVars, ingestVars, pureVars>>

\* wait_for_event("pause-check-{i}", event="rag/pause_site_ingestion",
\*                timeout=1s, if_exp="event.data.site_id")
\* The filter names no field of the incoming event: every pause event matches.
PauseMatches(ev) == ev.name = PauseEventName

\* The host keeps a pause event that was sent until a wait takes it, so a wait
\* returns None only when no pause event is there.

\* A wait without a timeout: the check neither returns None nor raises, it
\* returns only when a pause event is there.
PauseCheck_NoTimeout ==
    /\ pc = "pause_check"
    /\ checked' = checked \cup {i}
    /\ \E ev \in pending :
          /\ PauseMatches(ev)
          /\ pending' = pending \ {ev}
          /\ pausedBy' = ev
          /\ pc' = "paused"
    /\ UNCHANGED <<catalog, event, all_guides, offset, i, processed, total_chunks, errors,
                   sent, result, attempted, earlyPause, chain, runNo, offset0, faithful>>
    /\ UNCHANGED <<requests, hostVars, ingestVars, pureVars>>

\* ctx.step.wait_for_event(f"pause-check-{i}", ..., timeout=1s): the pause
\* event, or None after the timeout.  The call is outside the try block: its
\* exception ends the run.
PauseCheck ==
    /\ pc = "pause_check"
    /\ checked' = checked \cup {i}
    /\ \/ /\ IF \E ev \in pending : PauseMatches(ev)
             THEN \E ev \in pending :
                     /\ PauseMatches(ev)
                     /\ pending' = pending \ {ev}
                     /\ pausedBy' = ev
                     /\ pc' = "paused"
             ELSE /\ pc' = "process_guide"
                  /\ UNCHANGED <<pending, pausedBy>>
          /\ UNCHANGED result
       \/ Raise("pause-check") /\ UNCHANGED <<pending, pausedBy>>
    /\ UNCHANGED <<catalog, event, all_guides, offset, i, processed, total_chunks, errors,
                   sent, attempted, earlyPause, chain, runNo, offset0, faithful>>
    /\ UNCHANGED <<requests, hostVars, ingestVars, pureVars>>

\* A paused summary that names the guide after the one the pause check stood at.
PausedSummary_OffByOne ==
    [status |-> "paused", processed_guides |-> processed,
     resume_offset |-> i + 1, total_guides |-> total_guides]

\* return {"status": "paused", ...}
PausedSummary ==
    [status |-> "paused", processed_guides |-> processed,
     resume_offset |-> i, total_guides |-> total_guides]

\* send_event("paused") and the return of the paused summary: one that goes on
\* with the loop instead of returning.
Paused_NoReturn ==
    /\ pc = "paused"
    /\ sent' = Append(sent, [site_id |-> site_id, status |-> "paused",
                             processed_guides |-> processed, resume_offset |-> i,
                             total_guides |-> total_guides])
    /\ pc' = "process_guide"
    /\ UNCHANGED <<catalog, event, all_guides, offset, i, processed, total_chunks, errors,
                   result, pending, attempted, checked, pausedBy, earlyPause, chain,
                   runNo, offset0, faithful>>
    /\ UNCHANGED <<requests, hostVars, ingestVars, pureVars>>

\* send_event("paused") and the return of the paused summary.
Paused ==
    /\ pc = "paused"
    /\ \/ /\ sent' = Append(sent, [site_id |-> site_id, status |-> "paused",
                                   processed_guides |-> processed, resume_offset |-> i,
                                   total_guides |-> total_guides])
          /\ result' = PausedSummary
          /\ pc' = "done"
       \/ Raise("paused") /\ UNCHANGED sent
    /\ UNCHANGED <<catalog, event, all_guides, offset, i, processed, total_chunks, errors,
                   pending, attempted, checked, pausedBy, earlyPause, chain, runNo, offset0, faithful>>
    /\ UNCHANGED <<requests, hostVars, ingestVars, pureVars>>

\* except Exception as e: errors.append({...})
ErrorRecord(e) == [guide_id |-> guide_id, title |-> current_guide, error |-> e]

\* ---- the points process_single_guide stores ------------------------------

Texts == {"a", "b"}

\* source_id = f"{site_id}_guide_{guide_id}"
SagaSource(site, gid) == <<site, "guide", gid>>

\* f"guide_{guide_id}"
EventSource(gid) == <<"", "guide", gid>>

\* uuid.uuid5(namespace, name): the same name gives the same id, and two
\* names give two ids.
Uuid5(namespace, name) == <<"uuid5", namespace, name>>

\* An id that leaves the chunk index out of the hashed name.
PointId_NoIndex(source_id, k) == Uuid5("NAMESPACE_URL", <<source_id, ":", 0>>)

\* An id that leaves the source out of the hashed name.
PointId_NoSource(source_id, k) == Uuid5("NAMESPACE_URL", <<"", ":", k>>)

\* str(uuid.uuid5(uuid.NAMESPACE_URL, f"{source_id}:{i}"))
PointId(source_id, k) == Uuid5("NAMESPACE_URL", <<source_id, ":", k>>)

\* The embedding of a text.
Embedding(text) == <<"vec", text>>

\* The k-th point (k = 1..len(chunks)) of the step st: id, vector and payload
\* {"source": source_id, "text": chunks[i], "guide_id": guide_id} of chunk i = k - 1.
PointOf(st, k) ==
    [id      |-> PointId(st.source_id, k - 1),
     vector  |-> Embedding(st.chunks[k]),
     payload |-> [source |-> st.source_id, text |-> st.chunks[k], guide_id |-> st.guide_id]]

\* client.upsert of one point: the point replaces the one stored under its id.
Put(points, p) == {q \in points : q.id # p.id} \cup {p}

\* The chunk texts of guide gid in the content source.
GuideChunks(gid) == [k \in 1..load_and_chunk_guide(gid) |-> IF k % 2 = 1 THEN "a" ELSE "b"]

\* storage.upsert(ids, vecs, payloads): the first k points of st are stored.
RECURSIVE PutAll(_, _, _)
PutAll(points, st, k) ==
    IF k = 0 THEN points ELSE Put(PutAll(points, st, k - 1), PointOf(st, k))

\* What process_single_guide leaves in the index when it returns: a point
\* per chunk of the guide, under the source id of the site and the guide.
StoreGuide(points, site, gid) ==
    LET st == [source_id |-> SagaSource(site, gid), guide_id |-> gid,
               chunks |-> GuideChunks(gid)]
    IN  PutAll(points, st, Len(st.chunks))

\* process_single_guide(guide_id, token, site_id): the chunk count, or an exception.
process_single_guide(gid, fails) ==
    IF fails THEN [raised |-> <<"Failed to process guide", gid>>]
    ELSE [chunks |-> load_and_chunk_guide(gid)]

\* An ingestion step that a pending pause event cuts short: the run goes to its
\* paused return with the guide neither counted nor reported.
ProcessGuide_Preempt ==
    /\ pc = "process_guide"
    /\ IF pending # {}
       THEN /\ \E ev \in pending : pausedBy' = ev /\ pending' = pending \ {ev}
            /\ pc' = "paused"
            /\ UNCHANGED <<processed, total_chunks, errors, index>>
       ELSE /\ processed' = processed + 1
            /\ total_chunks' = total_chunks + load_and_chunk_guide(guide_id)
            /\ index' = StoreGuide(index, site_id, guide_id)
            /\ pc' = "progress"
            /\ UNCHANGED <<errors, pending, pausedBy>>
    /\ attempted' = Append(attempted, i)
    /\ chain' = Append(chain, i)
    /\ UNCHANGED <<catalog, event, all_guides, offset, i, sent, result, checked,
                   earlyPause, runNo, offset0, faithful>>
    /\ UNCHANGED <<requests, hostVars, steps, pureVars>>

\* A loop that does not wait for the progress event of a guide whose step
\* returned before it goes on to the next guide.
ProcessGuide_NoProgress ==
    /\ pc = "process_guide"
    /\ \E fails \in BOOLEAN :
         /\ fails => Len(errors) < MaxFailures
         /\ IF fails
            THEN /\ errors' = Append(errors, ErrorRecord(<<"Failed to process guide", guide_id>>))
                 /\ pc' = "error"
                 /\ index' \in {index, StoreGuide(index, site_id, guide_id)}
                 /\ UNCHANGED <<processed, total_chunks, i>>
            ELSE /\ processed' = processed + 1
                 /\ total_chunks' = total_chunks + load_and_chunk_guide(guide_id)
                 /\ index' = StoreGuide(index, site_id, guide_id)
                 /\ LoopFrom(i + 1)
                 /\ UNCHANGED errors
    /\ attempted' = Append(attempted, i)
    /\ chain' = Append(chain, i)
    /\ UNCHANGED <<catalog, event, all_guides, offset, sent, result, pending, checked,
                   pausedBy, earlyPause, runNo, offset0, faithful>>
    /\ UNCHANGED <<requests, hostVars, steps, pureVars>>

\* step.run("process-guide-{guide_id}") inside the try block: when the step
\* returns, the points of the guide are in the index; when it raises, the
\* index is as it was, or holds the points of the guide: the storage is closed
\* after the upsert (QdrantStorage.__exit__), and an upsert may raise after the
\* points were stored.  The runs checked catch up to MaxFailures exceptions.
ProcessGuide ==
    /\ pc = "process_guide"
    /\ \E fails \in BOOLEAN :
         /\ fails => Len(errors) < MaxFailures
         /\ LET r == process_single_guide(guide_id, fails)
            IN  IF "raised" \in DOMAIN r
                THEN /\ errors' = Append(errors, ErrorRecord(r.raised))
                     /\ pc' = "error"
                     /\ index' \in {index, StoreGuide(index, site_id, guide_id)}
                     /\ UNCHANGED <<processed, total_chunks>>
                ELSE /\ processed' = processed + 1
                     /\ total_chunks' = total_chunks + Get(r, "chunks", 0)
                     /\ index' = StoreGuide(index, site_id, guide_id)
                     /\ pc' = "progress"
                     /\ UNCHANGED errors
    /\ attempted' = Append(attempted, i)
    /\ chain' = Append(chain, i)
    /\ UNCHANGED <<catalog, event, all_guides, offset, i, sent, result, pending, checked,
                   pausedBy, earlyPause, runNo, offset0, faithful>>
    /\ UNCHANGED <<requests, hostVars, steps, pureVars>>

\* send_event("progress-{guide_id}") inside the try block: if it raises, the
\* except block records the guide as failed.
Progress ==
    /\ pc = "progress"
    /\ \/ /\ sent' = Append(sent, [site_id |-> site_id, total_guides |-> total_guides,
                                   processed_guides |-> processed,
                                   total_chunks |-> total_chunks, status |-> "processing",
                                   current_guide |-> current_guide,
                                   percentage |-> Percentage(processed, total_guides)])
          /\ LoopFrom(i + 1)
          /\ UNCHANGED errors
       \/ /\ Len(errors) < MaxFailures
          /\ errors' = Append(errors, ErrorRecord(<<"send_event", guide_id>>))
          /\ pc' = "error"
          /\ UNCHANGED <<sent, i>>
    /\ UNCHANGED <<catalog, event, all_guides, offset, processed, total_chunks, result,
                   pending, attempted, checked, pausedBy, earlyPause, chain, runNo, offset0, faithful>>
    /\ UNCHANGED <<requests, hostVars, ingestVars, pureVars>>

\* An except block that leaves the loop after reporting the error.
Error_Break ==
    /\ pc = "error"
    /\ sent' = Append(sent, [site_id |-> site_id,
                             error |-> <<"Failed to process guide", guide_id,
                                         errors[Len(errors)].error>>,
                             processed_guides |-> processed,
                             failed_guides |-> Len(errors)])
    /\ pc' = "completed"
    /\ UNCHANGED <<catalog, event, all_guides, offset, i, processed, total_chunks, errors,
                   result, pending, attempted, checked, pausedBy, earlyPause, chain,
                   runNo, offset0, faithful>>
    /\ UNCHANGED <<requests, hostVars, ingestVars, pureVars>>

\* send_event("error-{guide_id}") in the except block, then the next iteration.
Error ==
    /\ pc = "error"
    /\ \/ /\ sent' = Append(sent, [site_id |-> site_id,
                                   error |-> <<"Failed to process guide", guide_id,
                                               errors[Len(errors)].error>>,
                                   processed_guides |-> processed,
                                   failed_guides |-> Len(errors)])
          /\ LoopFrom(i + 1)
          /\ UNCHANGED result
       \/ Raise("error") /\ UNCHANGED <<sent, i>>
    /\ UNCHANGED <<catalog, event, all_guides, offset, processed, total_chunks, errors,
                   pending, attempted, checked, pausedBy, earlyPause, chain, runNo, offset0, faithful>>
    /\ UNCHANGED <<requests, hostVars, ingestVars, pureVars>>

\* A summary that counts the failed guides among the processed ones.
CompletedSummary_CountsFailed ==
    [status |-> "completed", processed_guides |-> processed + Len(errors),
     failed_guides |-> Len(errors), total_chunks |-> total_chunks, errors |-> errors]

\* return {"status": "completed", "processed_guides": processed,
\*         "failed_guides": len(errors), "total_chunks": total_chunks, "errors": errors}
CompletedSummary ==
    [status |-> "completed", processed_guides |-> processed,
     failed_guides |-> Len(errors), total_chunks |-> total_chunks, errors |-> errors]

\* send_event("completed") and the return of the completed summary.
Completed ==
    /\ pc = "completed"
    /\ \/ /\ sent' = Append(sent, [site_id |-> site_id, status |-> "completed",
                                   total_guides |-> total_guides,
                                   processed_guides |-> processed,
                                   failed_guides |-> Len(errors),
                                   total_chunks |-> total_chunks, errors |-> errors])
          /\ result' = CompletedSummary
          /\ pc' = "done"
       \/ Raise("completed") /\ UNCHANGED sent
    /\ UNCHANGED <<catalog, event, all_guides, offset, i, processed, total_chunks, errors,
                   pending, attempted, checked, pausedBy, earlyPause, chain, runNo, offset0, faithful>>
    /\ UNCHANGED <<requests, hostVars, ingestVars, pureVars>>

\* ---- the front end -------------------------------------------------------

\* send_pause_event(site_id): a pause event for catalog s is sent to the host.
PauseEvent(s) == [name |-> PauseEventName, site_id |-> s]

SendPause(s) ==
    /\ PauseEvent(s) \notin pending
    /\ pending' = pending \cup {PauseEvent(s)}
    /\ earlyPause' = (earlyPause \/ (Processing /\ s = site_id /\ Remaining >= PauseEvery))
    /\ UNCHANGED <<catalog, event, pc, all_guides, offset, i, processed, total_chunks,
                   errors, sent, result, attempted, checked, pausedBy, chain, runNo, offset0, faithful>>
    /\ UNCHANGED <<requests, hostVars, ingestVars, pureVars>>

\* A trigger event that leaves the stored offset out.
ResumeEvent_Restart(stored) == [site_id |-> DefaultSiteId, resume_offset |-> 0]

\* send_site_ingest_event(token, site_id="hansaw", resume_offset=site_resume_offset)
ResumeEvent(stored) == [site_id |-> DefaultSiteId, resume_offset |-> stored]

\* What site_resume_offset can hold when the start button is clicked after a
\* run returned paused: the offset of the paused output when a poll read it
\* under a status that is not final (output.get("resume_offset", 0)); 0 when
\* the poll read it under a final status; the offset the session had before
\* (the one the run was started with) when the session polled no more, as
\* after its own click on the pause button.
StoredOffsets ==
    {Get(result, "resume_offset", 0), 0, Get(event, "resume_offset", 0)}

\* The front end starts the next run of a paused chain with the offset it has
\* stored.
Resume ==
    /\ pc = "done"
    /\ result.status = "paused"
    /\ runNo < MaxRuns
    /\ \E stored \in StoredOffsets :
          /\ event' = ResumeEvent(stored)
          /\ faithful' = (faithful /\ stored = result.resume_offset)
    /\ pc' = "init_progress"
    /\ all_guides' = <<>>
    /\ offset' = 0
    /\ i' = 0
    /\ processed' = 0
    /\ total_chunks' = 0
    /\ errors' = <<>>
    /\ sent' = <<>>
    /\ result' = NoResult
    /\ attempted' = <<>>
    /\ checked' = {}
    /\ pausedBy' = NoResult
    /\ earlyPause' = FALSE
    /\ runNo' = runNo + 1
    /\ requests' = <<>>
    /\ UNCHANGED <<catalog, pending, chain, offset0>>
    /\ UNCHANGED <<hostVars, ingestVars, pureVars>>

\* ---- the specification of one saga run -----------------------------------

\* The data of a rag/ingest_site trigger event, which the saga reads unchecked:
\* with site_id and resume_offset (for the default catalog every offset from
\* -MaxNegative to MaxGuides, negative ones included: range() and the list
\* access take them; a fresh run for the other catalogs), or with neither, so
\* that both defaults apply.
TriggerData ==
    [site_id : {DefaultSiteId}, resume_offset : (-MaxNegative)..MaxGuides]
        \cup [site_id : SiteIds \ {DefaultSiteId}, resume_offset : {0}]
        \cup {<<>>}

\* The trigger events a run on catalog c is checked with: every one for a
\* catalog of up to MaxGuides guides, a fresh run for the longer ones.
TriggersFor(c) ==
    IF Len(c) <= MaxGuides THEN TriggerData
    ELSE {<<>>, [site_id |-> DefaultSiteId, resume_offset |-> 0]}

Init ==
    /\ catalog \in Catalogs
    /\ event \in TriggersFor(catalog)
    /\ pc = "init_progress"
    /\ all_guides = <<>>
    /\ offset = 0
    /\ i = 0
    /\ processed = 0
    /\ total_chunks = 0
    /\ errors = <<>>
    /\ sent = <<>>
    /\ result = NoResult
    /\ pending = {}
    /\ attempted = <<>>
    /\ checked = {}
    /\ pausedBy = NoResult
    /\ earlyPause = FALSE
    /\ chain = <<>>
    /\ runNo = 1
    /\ offset0 = Get(event, "resume_offset", 0)
    /\ faithful = TRUE
    /\ requests = <<>>
    /\ queued = {}
    /\ active = {}
    /\ finished = {}
    /\ index = {}
    /\ steps = <<>>
    /\ AlignIdle
    /\ SearchIdle
    /\ UiIdle

Next ==
    \/ InitProgress
    \/ FetchList
    \/ UpdateProgress
    \/ PauseCheck
    \/ Paused
    \/ ProcessGuide
    \/ Progress
    \/ Error
    \/ Completed
    \/ \E s \in SiteIds : SendPause(s)

Spec == Init /\ [][Next]_vars

\* ---- a pause/resume chain of runs ----------------------------------------

\* The chains start from the first guide of a catalog with one pause check.
ChainInit ==
    /\ Init
    /\ Len(catalog) = PauseEvery + 1
    /\ event \in {<<>>, [site_id |-> DefaultSiteId, resume_offset |-> 0]}

ChainNext ==
    \/ Next
    \/ Resume

SpecChain == ChainInit /\ [][ChainNext]_vars

\* ---- the listing phase of a run over catalogs of several pages ------------

\* Catalog sizes at and around the multiples of the page size.
PagedSizes == {p * PageSize + d : p \in 0..MaxPages, d \in {0, 1, PageSize - 1}}

PagedCatalogs == { [k \in 1..n |-> Summary(k, {})] : n \in PagedSizes }

FetchInit ==
    /\ catalog \in PagedCatalogs
    /\ event \in TriggerData
    /\ pc = "init_progress"
    /\ all_guides = <<>>
    /\ offset = 0
    /\ i = 0
    /\ processed = 0
    /\ total_chunks = 0
    /\ errors = <<>>
    /\ sent = <<>>
    /\ result = NoResult
    /\ pending = {}
    /\ attempted = <<>>
    /\ checked = {}
    /\ pausedBy = NoResult
    /\ earlyPause = FALSE
    /\ chain = <<>>
    /\ runNo = 1
    /\ offset0 = Get(event, "resume_offset", 0)
    /\ faithful = TRUE
    /\ requests = <<>>
    /\ queued = {}
    /\ active = {}
    /\ finished = {}
    /\ index = {}
    /\ steps = <<>>
    /\ AlignIdle
    /\ SearchIdle
    /\ UiIdle

\* The run up to the event that reports the number of guides listed.
FetchNext ==
    \/ InitProgress
    \/ FetchList
    \/ UpdateProgress

SpecFetch == FetchInit /\ [][FetchNext]_vars

\* ---- one run, every host step of which returns or raises -----------------

\* The catalogs of up to one pause check, and one of exactly a full page.
LiveCatalogs ==
    {c \in Catalogs : Len(c) <= PauseEvery + 1} \cup {[k \in 1..PageSize |-> Summary(k, {})]}

\* The trigger events of a run on catalog c: those of the front end for a
\* short catalog, an offset at or around its end for the paged one.
LiveTriggers(c) ==
    IF Len(c) < PageSize THEN TriggerData
    ELSE [site_id : {DefaultSiteId}, resume_offset : {Len(c) - 1, Len(c), Len(c) + 1}]

LiveInit ==
    /\ catalog \in LiveCatalogs
    /\ event \in LiveTriggers(catalog)
    /\ pc = "init_progress"
    /\ all_guides = <<>>
    /\ offset = 0
    /\ i = 0
    /\ processed = 0
    /\ total_chunks = 0
    /\ errors = <<>>
    /\ sent = <<>>
    /\ result = NoResult
    /\ pending = {}
    /\ attempted = <<>>
    /\ checked = {}
    /\ pausedBy = NoResult
    /\ earlyPause = FALSE
    /\ chain = <<>>
    /\ runNo = 1
    /\ offset0 = Get(event, "resume_offset", 0)
    /\ faithful = TRUE
    /\ requests = <<>>
    /\ queued = {}
    /\ active = {}
    /\ finished = {}
    /\ index = {}
    /\ steps = <<>>
    /\ AlignIdle
    /\ SearchIdle
    /\ UiIdle

\* The host steps of the run, in the order the function body reaches them.
RunStep ==
    \/ InitProgress
    \/ FetchList
    \/ UpdateProgress
    \/ PauseCheck
    \/ Paused
    \/ ProcessGuide
    \/ Progress
    \/ Error
    \/ Completed

LiveNext ==
    \/ RunStep
    \/ \E s \in SiteIds : SendPause(s)

\* Every host step the run has reached returns or raises (the wait for a
\* pause event has a timeout); pause events come when the front end sends them.
SpecLive == LiveInit /\ [][LiveNext]_vars /\ WF_vars(RunStep)

\* ---- the host's admission of rag/ingest_site runs ------------------------

\* What the key expression "event.data.site_id" yields for a trigger event
\* that carries no site_id.
NullKey == "<null>"

\* concurrency=[Concurrency(limit=1, key="event.data.site_id")]
ConcurrencyKey(data) == Get(data, "site_id", NullKey)
ConcurrencyLimit == 1

\* site_id = ctx.event.data.get("site_id", "hansaw"): the catalog a run ingests.
CatalogOf(data) == Get(data, "site_id", DefaultSiteId)

Triggers == queued \cup active \cup finished

\* A rag/ingest_site event is sent to the host.
SendTrigger(data) ==
    /\ Cardinality(Triggers) < MaxTriggers
    /\ queued' = queued \cup {[id |-> Cardinality(Triggers) + 1, data |-> data]}
    /\ UNCHANGED <<active, finished>>
    /\ UNCHANGED <<sagaVars, ingestVars, pureVars>>

\* The host starts the run of a queued trigger event when fewer than
\* ConcurrencyLimit runs with the same key are executing.
Admit(t) ==
    /\ t \in queued
    /\ Cardinality({a \in active : ConcurrencyKey(a.data) = ConcurrencyKey(t.data)})
          < ConcurrencyLimit
    /\ queued' = queued \ {t}
    /\ active' = active \cup {t}
    /\ UNCHANGED finished
    /\ UNCHANGED <<sagaVars, ingestVars, pureVars>>

\* The run of an admitted trigger event returns or raises.
Finish(t) ==
    /\ t \in active
    /\ active' = active \ {t}
    /\ finished' = finished \cup {t}
    /\ UNCHANGED queued
    /\ UNCHANGED <<sagaVars, ingestVars, pureVars>>

HostInit ==
    /\ catalog = <<>>
    /\ event = <<>>
    /\ pc = "done"
    /\ all_guides = <<>>
    /\ offset = 0
    /\ i = 0
    /\ processed = 0
    /\ total_chunks = 0
    /\ errors = <<>>
    /\ sent = <<>>
    /\ result = NoResult
    /\ pending = {}
    /\ attempted = <<>>
    /\ checked = {}
    /\ pausedBy = NoResult
    /\ earlyPause = FALSE
    /\ chain = <<>>
    /\ runNo = 1
    /\ offset0 = 0
    /\ faithful = TRUE
    /\ requests = <<>>
    /\ queued = {}
    /\ active = {}
    /\ finished = {}
    /\ index = {}
    /\ steps = <<>>
    /\ AlignIdle
    /\ SearchIdle
    /\ UiIdle

HostNext ==
    \/ \E data \in [site_id : SiteIds] \cup {<<>>} : SendTrigger(data)
    \/ \E t \in queued : Admit(t)
    \/ \E t \in active : Finish(t)

SpecHost == HostInit /\ [][HostNext]_vars

\* ---- the single-guide ingestion step and the vector index ----------------

\* A step is either process_single_guide, called by the saga, or the
\* rag/ingest_guide function with its two host steps load-and-chunk and
\* embed-and-upsert.  Two steps run side by side against one index.
StepNos == 1..2
IngestGuides == 1..2

\* What load_and_chunk_guide can return: the chunk texts of a guide, in order.
ChunkLists == UNION {[1..n -> Texts] : n \in 0..MaxChunks}

\* The data of a rag/ingest_guide event: the front end sends guide_id and
\* source_id = f"guide_{guide_id}"; source_id may be left out or name another source.
IngestEvents ==
    [guide_id : IngestGuides] \cup [guide_id : IngestGuides, source_id : {EventSource(1)}]

StepInputs ==
    [path : {"saga"}, guide_id : IngestGuides, site_id : {DefaultSiteId}]
        \cup [path : {"event"}, data : IngestEvents]

\* The step as it starts: its guide and source, nothing loaded, no collaborator called.
NewStep(in) ==
    [path      |-> in.path,
     guide_id  |-> IF in.path = "saga" THEN in.guide_id ELSE in.data.guide_id,
     source_id |-> IF in.path = "saga" THEN SagaSource(in.site_id, in.guide_id)
                   ELSE Get(in.data, "source_id", EventSource(in.data.guide_id)),
     pc        |-> "load",
     loaded    |-> FALSE,
     chunks    |-> <<>>,
     written   |-> 0,
     calls     |-> <<>>,
     ret       |-> -1]

Call(op, n) == [op |-> op, n |-> n]

\* load_and_chunk_guide(guide_id, token): fetch_guide raises on a failed
\* request; process_single_guide returns {"chunks": 0} on an empty chunk list.
Load(n) ==
    LET st == steps[n]
        called == Append(st.calls, Call("fetch_guide", st.guide_id))
    IN  /\ st.pc = "load"
        /\ \/ steps' = [steps EXCEPT ![n].pc = "raised", ![n].calls = called]
           \/ \E chunks \in ChunkLists :
                steps' = [steps EXCEPT
                            ![n].calls = called,
                            ![n].loaded = TRUE,
                            ![n].chunks = chunks,
                            ![n].pc = IF st.path = "saga" /\ chunks = <<>>
                                      THEN "returned" ELSE "embed",
                            ![n].ret = IF st.path = "saga" /\ chunks = <<>>
                                       THEN 0 ELSE st.ret]
        /\ UNCHANGED <<sagaVars, hostVars, index, pureVars>>

\* The provider calls of embed_texts up to and including the k-th text.
RECURSIVE Invocations(_)
Invocations(k) == IF k = 0 THEN <<>> ELSE Append(Invocations(k - 1), Call("invoke_model", k))

\* An embedding failure that is swallowed: the step returns a count of 0.
Embed_Swallow(n) ==
    LET st == steps[n]
    IN  /\ st.pc = "embed"
        /\ \E k \in 1..(Len(st.chunks) + 1) :
             steps' = [steps EXCEPT
                         ![n].calls = st.calls \o Invocations(Min(k, Len(st.chunks))),
                         ![n].pc = IF k > Len(st.chunks) THEN "upsert" ELSE "returned",
                         ![n].ret = IF k > Len(st.chunks) THEN st.ret ELSE 0]
        /\ UNCHANGED <<sagaVars, hostVars, index, pureVars>>

\* embed_texts(chunks): one invoke_model call per text, in order; the first
\* call that raises ends the step with that exception.
Embed(n) ==
    LET st == steps[n]
    IN  /\ st.pc = "embed"
        /\ \E k \in 1..(Len(st.chunks) + 1) :
             steps' = [steps EXCEPT
                         ![n].calls = st.calls \o Invocations(Min(k, Len(st.chunks))),
                         ![n].pc = IF k > Len(st.chunks) THEN "upsert" ELSE "raised"]
        /\ UNCHANGED <<sagaVars, hostVars, index, pureVars>>

\* QdrantStorage().upsert(ids, vecs, payloads): one call with a point per
\* chunk.  The call may raise before anything is stored.
Upsert(n) ==
    LET st == steps[n]
        called == Append(st.calls, Call("upsert", Len(st.chunks)))
    IN  /\ st.pc = "upsert"
        /\ \/ steps' = [steps EXCEPT ![n].pc = "raised", ![n].calls = called]
           \/ steps' = [steps EXCEPT
                          ![n].calls = called,
                          ![n].pc = IF st.chunks = <<>> THEN "returned" ELSE "writing",
                          ![n].ret = IF st.chunks = <<>> THEN 0 ELSE st.ret]
        /\ UNCHANGED <<sagaVars, hostVars, index, pureVars>>

\* The index stores the points of an upsert call one after the other, so the
\* points of two calls may interleave.  After the last point the call returns,
\* the storage is closed (QdrantStorage.__exit__) and the step returns
\* len(chunks); or the call, or the close, raises with the points stored.
WritePoint(n) ==
    LET st == steps[n]
        k == st.written + 1
    IN  /\ st.pc = "writing"
        /\ index' = Put(index, PointOf(st, k))
        /\ IF k < Len(st.chunks)
           THEN steps' = [steps EXCEPT ![n].written = k]
           ELSE \/ steps' = [steps EXCEPT ![n].written = k, ![n].pc = "returned",
                                          ![n].ret = Len(st.chunks)]
                \/ steps' = [steps EXCEPT ![n].written = k, ![n].pc = "raised"]
        /\ UNCHANGED <<sagaVars, hostVars, pureVars>>

IngestInit ==
    /\ catalog = <<>>
    /\ event = <<>>
    /\ pc = "done"
    /\ all_guides = <<>>
    /\ offset = 0
    /\ i = 0
    /\ processed = 0
    /\ total_chunks = 0
    /\ errors = <<>>
    /\ sent = <<>>
    /\ result = NoResult
    /\ pending = {}
    /\ attempted = <<>>
    /\ checked = {}
    /\ pausedBy = NoResult
    /\ earlyPause = FALSE
    /\ chain = <<>>
    /\ runNo = 1
    /\ offset0 = 0
    /\ faithful = TRUE
    /\ requests = <<>>
    /\ queued = {}
    /\ active = {}
    /\ finished = {}
    /\ index = {}
    /\ \E ins \in [StepNos -> StepInputs] : steps = [n \in StepNos |-> NewStep(ins[n])]
    /\ AlignIdle
    /\ SearchIdle
    /\ UiIdle

IngestNext ==
    \E n \in StepNos :
        \/ Load(n)
        \/ Embed(n)
        \/ Upsert(n)
        \/ WritePoint(n)

SpecIngest == IngestInit /\ [][IngestNext]_vars

\* Re-ingestion: the steps run one after the other, as the guide steps of
\* the saga loop do (each ctx.step.run is awaited before the next, and the
\* runs of a site do not overlap): step n starts when the steps before it
\* have returned or raised.
Ended(n) == steps[n].pc \in {"returned", "raised"}

ReingestNext ==
    \E n \in StepNos :
        /\ \A m \in 1..(n - 1) : Ended(m)
        /\ \/ Load(n)
           \/ Embed(n)
           \/ Upsert(n)
           \/ WritePoint(n)

SpecReingest == IngestInit /\ [][ReingestNext]_vars

\* ---- values of the guide documents and of the index payloads -------------

\* A JSON value as Python sees it: null, a number, a string, a list, a dict
\* (a record of the keys that are present).
PyNull == [t |-> "null"]
PyInt(n) == [t |-> "int", v |-> n]
PyStr(str) == [t |-> "str", v |-> str]
PyList(q) == [t |-> "list", v |-> q]
PyDict(d) == [t |-> "dict", v |-> d]

\* bool(x)
Truthy(x) ==
    CASE x.t = "null" -> FALSE
      [] x.t = "int"  -> x.v # 0
      [] x.t = "str"  -> x.v # ""
      [] x.t = "list" -> x.v # <<>>
      [] x.t = "dict" -> DOMAIN x.v # {}

\* x or default
Or(x, default) == IF Truthy(x) THEN x ELSE default

\* d.get(key, default) of a dict value
DictGet(d, key, default) == IF key \in DOMAIN d.v THEN d.v[key] ELSE default

\* hash(x) is defined
Hashable(x) == x.t \notin {"list", "dict"}

Digits == <<"1", "2", "3", "4", "5", "6", "7", "8", "9">>

\* str(x), for the values that occur as list entries
Str(x) ==
    CASE x.t = "str"  -> x
      [] x.t = "int"  -> PyStr(IF x.v = 0 THEN "0" ELSE Digits[x.v])
      [] x.t = "null" -> PyStr("None")
      [] x.t = "list" -> PyStr("[...]")
      [] x.t = "dict" -> PyStr("{...}")

\* ---- the chunking of a guide document ------------------------------------

\* A text of the document whose surrounding whitespace matters: ws characters
\* of whitespace around len other characters.
Text(ws, len) == [ws |-> ws, len |-> len]

\* s.strip()
Strip(s) == Text(0, s.len)

IsNull(x) == "t" \in DOMAIN x /\ x.t = "null"

\* The media blocks a step is tried with: none, null, images (one entry
\* without URL, one that is no dict), a video, a block that is no dict, and
\* image blocks whose data is null, a dict or a number.
Item(url) == PyDict([original |-> PyStr(url)])
Medias ==
    { PyNull,
      PyDict([type |-> PyStr("image"), data |-> PyList(<<Item("u1"), Item(""), Item("u2")>>)]),
      PyDict([type |-> PyStr("image"),
              data |-> PyList(<<PyStr("x"), PyDict([thumbnail |-> PyStr("u3")]), Item("u4")>>)]),
      PyDict([type |-> PyStr("video"), data |-> PyList(<<Item("u5")>>)]),
      PyList(<<Item("u6")>>),
      PyDict([type |-> PyStr("image"), data |-> PyNull]),
      PyDict([type |-> PyStr("image"), data |-> PyDict([original |-> PyStr("u7")])]),
      PyDict([type |-> PyStr("image"), data |-> PyInt(5)]) }

\* The steps a document is built from: the lengths of the title and of the
\* rendered lines (0: an empty line), and the media block if there is one.
StepValues ==
    { [title |-> 4, lines |-> <<>>],
      [title |-> 0, lines |-> <<0>>] }
    \cup { [title |-> 4, lines |-> <<10, 0>>, media |-> m] : m \in Medias }
    \cup { [title |-> 4, lines |-> <<ChunkLimit - 13 - 3>>, media |-> m] : m \in {PyNull} }
    \cup { [title |-> 4, lines |-> <<ChunkLimit - 13 - 2>>, media |-> m] :
             m \in {md \in Medias : md.t = "dict" /\ md.v.data.t = "list"} }

StepLists == UNION {[1..n -> StepValues] : n \in 0..MaxDocSteps}

\* The values of introduction_rendered and conclusion_rendered: empty, only
\* whitespace, short with whitespace around it, of a given stripped length, null.
Rendered(long) == {Text(0, 0), Text(3, 0), Text(2, 10), Text(0, long), PyNull}

\* The lists of parts and of tools: each entry the length of its text.
ItemLists == {<<>>, <<5, 0>>, <<ChunkLimit>>}

Merge(a, b) == [f \in (DOMAIN a) \cup (DOMAIN b) |-> IF f \in DOMAIN a THEN a[f] ELSE b[f]]

\* The guide documents: title and summary by their lengths (the header is
\* 41 characters plus the four fields), the optional fields present or not.
\* Every list of steps comes with every introduction; every combination of
\* the optional fields comes with at most one step.
Docs ==
    { Merge([title |-> 5, summary |-> 0, steps |-> st], in) :
        st \in StepLists,
        in \in {<<>>} \cup {[introduction_rendered |-> x] : x \in {Text(3, 0), Text(2, 10)}} }
    \cup
    { Merge([title |-> 5, summary |-> su, steps |-> st], Merge(in, Merge(co, Merge(pa, to)))) :
        su \in {0, ChunkLimit - 46, ChunkLimit - 45},
        st \in {<<>>, <<[title |-> 4, lines |-> <<10, 0>>, media |-> PyNull]>>},
        in \in {<<>>} \cup {[introduction_rendered |-> x] : x \in Rendered(ChunkLimit - 13)},
        co \in {<<>>} \cup {[conclusion_rendered |-> x] : x \in {Text(1, 8), PyNull}},
        pa \in {<<>>} \cup {[parts |-> x] : x \in ItemLists},
        to \in {<<>>} \cup {[tools |-> x] : x \in {<<>>, <<7>>}} }

Section(kind, len, no) == [kind |-> kind, len |-> len, no |-> no]

RECURSIVE SumSeq(_)
SumSeq(q) == IF q = <<>> THEN 0 ELSE q[1] + SumSeq(Tail(q))

\* f"Step {orderby}: {title}\n" (orderby of one digit) and "- {text}\n" for
\* every line with a text.
StepText(st, k) ==
    Section("Step", 9 + st.title + SumSeq([j \in 1..Len(st.lines) |->
                                              IF st.lines[j] = 0 THEN 0 ELSE 3 + st.lines[j]]), k)

\* "Required Parts:\n" / "Required Tools:\n" and "- {text}\n" for every entry.
ListText(kind, q) == Section(kind, 16 + SumSeq([j \in 1..Len(q) |-> 3 + q[j]]), 0)

\* A rendered field that is tested and kept without strip().
RenderedText_NoStrip(d, field, kind, prefix) ==
    IF field \in DOMAIN d /\ d[field].ws + d[field].len > 0
    THEN <<Section(kind, prefix + d[field].ws + d[field].len, 0)>> ELSE <<>>

\* An optional rendered field adds a section when it is not empty after strip().
RenderedText(d, field, kind, prefix) ==
    IF field \in DOMAIN d /\ Strip(d[field]).len > 0
    THEN <<Section(kind, prefix + Strip(d[field]).len, 0)>> ELSE <<>>

\* None.strip() raises AttributeError.
RaisesOnRendered(d) ==
    \E field \in {"introduction_rendered", "conclusion_rendered"} :
        field \in DOMAIN d /\ IsNull(d[field])

\* extract_guide_text(guide_data), for a document on which it returns.
extract_guide_text(d) ==
    <<Section("Header", 41 + d.title + d.summary, 0)>>
    \o RenderedText(d, "introduction_rendered", "Introduction", 14)
    \o [k \in 1..Len(d.steps) |-> StepText(d.steps[k], k)]
    \o RenderedText(d, "conclusion_rendered", "Conclusion", 12)
    \o (IF Get(d, "parts", <<>>) # <<>> THEN <<ListText("Parts", d.parts)>> ELSE <<>>)
    \o (IF Get(d, "tools", <<>>) # <<>> THEN <<ListText("Tools", d.tools)>> ELSE <<>>)

\* The media block of a step as the loop reads it: step.get("media") or {}.
MediaOf(st) == Or(Get(st, "media", PyNull), PyDict(<<>>))

\* media.get("data") or [], when the block is a dict of type image.
MediaData(st) ==
    LET media == MediaOf(st)
    IN  IF media.t = "dict" /\ DictGet(media, "type", PyNull) = PyStr("image")
        THEN Or(DictGet(media, "data", PyNull), PyList(<<>>))
        ELSE PyList(<<>>)

\* `for item in data` raises TypeError on a number.
RaisesOnMedia(d) == \E k \in 1..Len(d.steps) : MediaData(d.steps[k]).t = "int"

RECURSIVE Originals(_)
Originals(items) ==
    IF items = <<>> THEN <<>>
    ELSE LET item == items[1]
             url == IF item.t = "dict" THEN DictGet(item, "original", PyNull) ELSE PyNull
         IN  (IF Truthy(url) THEN <<url>> ELSE <<>>) \o Originals(Tail(items))

\* The images of one step: item.get("original") of every dict in the data
\* list that has one; iterating a dict or a string yields no dict.
StepImages(st) ==
    LET data == MediaData(st)
    IN  IF data.t = "list" THEN Originals(data.v) ELSE <<>>

ImageSection(kind, images, no) == [kind |-> kind, images |-> images, no |-> no]

\* An optional rendered field adds an empty image list on the same condition.
RenderedImages(d, field, kind) ==
    IF field \in DOMAIN d /\ Strip(d[field]).len > 0
    THEN <<ImageSection(kind, <<>>, 0)>> ELSE <<>>

\* The image lists of the steps that have images only.
StepImageSections_SkipEmpty(d) ==
    SelectSeq([k \in 1..Len(d.steps) |-> ImageSection("Step", StepImages(d.steps[k]), k)],
              LAMBDA sec : sec.images # <<>>)

\* One image list for every step.
StepImageSections(d) ==
    [k \in 1..Len(d.steps) |-> ImageSection("Step", StepImages(d.steps[k]), k)]

\* extract_guide_images(guide_data), for a document on which it returns.
extract_guide_images(d) ==
    <<ImageSection("Header", <<>>, 0)>>
    \o RenderedImages(d, "introduction_rendered", "Introduction")
    \o StepImageSections(d)
    \o RenderedImages(d, "conclusion_rendered", "Conclusion")
    \o (IF Get(d, "parts", <<>>) # <<>> THEN <<ImageSection("Parts", <<>>, 0)>> ELSE <<>>)
    \o (IF Get(d, "tools", <<>>) # <<>> THEN <<ImageSection("Tools", <<>>, 0)>> ELSE <<>>)

\* The sub-chunk j of a section the splitter cut.
Part(sec, j) == [kind |-> sec.kind, no |-> sec.no, of |-> sec.len, part |-> j]

\* An alignment loop that cuts every section of ChunkLimit characters or more.
IsLong_Inclusive(sec) == sec.len >= ChunkLimit

\* if len(section) > 1000
IsLong(sec) == sec.len > ChunkLimit

\* The indices of the sections the loop hands to the splitter.
LongIndices(ts, n) == {idx \in 1..n : IsLong(ts[idx])}

\* The loop of load_and_chunk_guide_with_media from index idx on, over the
\* first n sections; split[idx] is the number of sub-chunks splitter.split_text
\* returns for section idx.  parent records the section each chunk came from.
RECURSIVE AlignFrom(_, _, _, _, _)
AlignFrom(idx, n, ts, is, split) ==
    IF idx > n THEN [chunks |-> <<>>, chunk_images |-> <<>>, parent |-> <<>>]
    ELSE LET images == IF idx <= Len(is) THEN is[idx].images ELSE <<>>
             count == IF IsLong(ts[idx]) THEN split[idx] ELSE 1
             rest == AlignFrom(idx + 1, n, ts, is, split)
         IN  [chunks |-> [j \in 1..count |-> IF IsLong(ts[idx]) THEN Part(ts[idx], j) ELSE ts[idx]]
                            \o rest.chunks,
              chunk_images |-> [j \in 1..count |-> images] \o rest.chunk_images,
              parent |-> [j \in 1..count |-> idx] \o rest.parent]

\* A loop that appends the images of a section once, however many sub-chunks
\* the section gives.
Align_ImagesPerSection(ts, is, split) ==
    LET n == Min(Len(ts), Len(is))
        r == AlignFrom(1, n, ts, is, split)
    IN  [chunks |-> r.chunks, chunk_images |-> [idx \in 1..n |-> is[idx].images],
         parent |-> r.parent]

\* max_len = min(len(text_sections), len(image_sections)); both are cut to
\* max_len; then the loop.
Align(ts, is, split) == AlignFrom(1, Min(Len(ts), Len(is)), ts, is, split)

\* load_and_chunk_guide_with_media(guide_id, token): fetch_guide may raise;
\* the extractors raise on a null rendered field and on media data that is a
\* number; otherwise the sections are aligned and cut.
AlignGuide ==
    /\ alignPc = "fetch"
    /\ \/ /\ alignPc' = "raised"
          /\ UNCHANGED <<text_sections, image_sections, aligned>>
       \/ /\ RaisesOnRendered(doc)
          /\ alignPc' = "raised"
          /\ UNCHANGED <<text_sections, image_sections, aligned>>
       \/ /\ ~RaisesOnRendered(doc)
          /\ RaisesOnMedia(doc)
          /\ text_sections' = extract_guide_text(doc)
          /\ alignPc' = "raised"
          /\ UNCHANGED <<image_sections, aligned>>
       \/ /\ ~RaisesOnRendered(doc)
          /\ ~RaisesOnMedia(doc)
          /\ LET ts == extract_guide_text(doc)
                 is == extract_guide_images(doc)
             IN  /\ text_sections' = ts
                 /\ image_sections' = is
                 /\ \E split \in [LongIndices(ts, Min(Len(ts), Len(is))) -> 0..MaxParts] :
                      aligned' = Merge(Align(ts, is, split), [split |-> split])
          /\ alignPc' = "aligned"
    /\ UNCHANGED <<doc, searchVars, uiVars>>
    /\ UNCHANGED <<sagaVars, hostVars, ingestVars>>

\* The saga, host and ingestion variables at rest.
OthersIdle ==
    /\ catalog = <<>>
    /\ event = <<>>
    /\ pc = "done"
    /\ all_guides = <<>>
    /\ offset = 0
    /\ i = 0
    /\ processed = 0
    /\ total_chunks = 0
    /\ errors = <<>>
    /\ sent = <<>>
    /\ result = NoResult
    /\ pending = {}
    /\ attempted = <<>>
    /\ checked = {}
    /\ pausedBy = NoResult
    /\ earlyPause = FALSE
    /\ chain = <<>>
    /\ runNo = 1
    /\ offset0 = 0
    /\ faithful = TRUE
    /\ requests = <<>>
    /\ queued = {}
    /\ active = {}
    /\ finished = {}
    /\ index = {}
    /\ steps = <<>>

AlignInit ==
    /\ OthersIdle
    /\ SearchIdle
    /\ UiIdle
    /\ doc \in Docs
    /\ text_sections = <<>>
    /\ image_sections = <<>>
    /\ aligned = <<>>
    /\ alignPc = "fetch"

AlignNext == AlignGuide

SpecAlign == AlignInit /\ [][AlignNext]_vars

\* ---- retrieval: QdrantStorage.search and _retrieve_context ---------------

\* The payloads of the scored points the index returns: well-formed ones
\* (some with the same text and source), and ones with an empty or missing
\* text, a missing, null or zero guide_id, images that are missing, null, a
\* string, a dict or a list with empty and non-string entries, and a source
\* or guide_id that is a list or dict.
Payloads ==
    { [text |-> PyStr("a"), source |-> PyStr("s1"), guide_id |-> PyInt(1),
       images |-> PyList(<<PyStr("u1"), PyStr(""), PyStr("u2")>>),
       guide_title |-> PyStr("T1"), guide_url |-> PyStr("U1")],
      [text |-> PyStr("a"), source |-> PyStr("s1"), guide_id |-> PyInt(1)],
      [text |-> PyStr(""), source |-> PyStr("s2"), guide_id |-> PyInt(2),
       images |-> PyList(<<PyStr("u1")>>)],
      [source |-> PyStr("s2"), guide_id |-> PyInt(2)],
      [text |-> PyStr("b"), source |-> PyStr("s2")],
      [text |-> PyStr("b"), source |-> PyStr("s2"), guide_id |-> PyNull, images |-> PyNull],
      [text |-> PyStr("c"), source |-> PyStr(""), guide_id |-> PyInt(0),
       images |-> PyStr("u1")],
      [text |-> PyStr("c"), guide_id |-> PyInt(2),
       images |-> PyList(<<PyInt(7), PyNull, PyStr("u3")>>), guide_title |-> PyStr("T2")],
      [text |-> PyStr("d"), source |-> PyStr("s1"), guide_id |-> PyInt(1),
       images |-> PyDict([a |-> PyInt(1)])],
      [text |-> PyStr("d"), source |-> PyList(<<PyStr("s1")>>), guide_id |-> PyInt(1)],
      [text |-> PyStr("d"), source |-> PyStr("s1"), guide_id |-> PyDict([id |-> PyInt(1)])] }

\* A scored point: with a payload dict, with payload None, or without the
\* payload attribute.
Points ==
    {[payload |-> PyDict(d)] : d \in Payloads}
        \cup {[payload |-> PyNull], [score |-> 1]}

Batches == UNION {[1..n -> Points] : n \in 0..MaxResults}

\* getattr(r, "payload", None) or {}
PayloadOf(r) == Or(IF "payload" \in DOMAIN r THEN r.payload ELSE PyNull, PyDict(<<>>))

TextOf(r) == DictGet(PayloadOf(r), "text", PyStr(""))
SourceOf(r) == DictGet(PayloadOf(r), "source", PyStr(""))
GuideIdOf(r) == DictGet(PayloadOf(r), "guide_id", PyNull)
ImagesOf(r) == Or(DictGet(PayloadOf(r), "images", PyNull), PyList(<<>>))

\* A point is kept whenever its text is not None.
Kept_NotNone(r) == TextOf(r).t # "null"

\* if text:
Kept(r) == Truthy(TextOf(r))

\* [str(u) for u in images if u]
RECURSIVE StrEntries(_)
StrEntries(q) ==
    IF q = <<>> THEN <<>>
    ELSE (IF Truthy(q[1]) THEN <<Str(q[1])>> ELSE <<>>) \o StrEntries(Tail(q))

\* An image list is appended only for list-valued images.
AppendImages_ListOnly(q, images) ==
    IF images.t = "list" THEN Append(q, StrEntries(images.v)) ELSE q

\* if isinstance(images, list): ... else: images_per_context.append([])
AppendImages(q, images) ==
    Append(q, IF images.t = "list" THEN StrEntries(images.v) ELSE <<>>)

\* The record of the point's guide.
InfoOf(r) ==
    [guide_id |-> GuideIdOf(r),
     title    |-> DictGet(PayloadOf(r), "guide_title", PyNull),
     url      |-> DictGet(PayloadOf(r), "guide_url", PyNull),
     source   |-> SourceOf(r)]

\* A guide record is appended only for a truthy guide_id.
AppendInfo_IfGuide(q, r) == IF Truthy(GuideIdOf(r)) THEN Append(q, InfoOf(r)) ELSE q

\* guide_info.append({...})
AppendInfo(q, r) == Append(q, InfoOf(r))

\* sources.add / guide_ids.add raise TypeError on an unhashable value.
RaisesOnAdd(r) ==
    \/ ~Hashable(SourceOf(r))
    \/ Truthy(GuideIdOf(r)) /\ ~Hashable(GuideIdOf(r))

NoneFound ==
    [contexts |-> <<>>, sources |-> {}, guide_ids |-> {},
     images_per_context |-> <<>>, guide_info |-> <<>>, raised |-> FALSE]

\* One pass of the loop over the results.
Visit(acc, r) ==
    IF acc.raised \/ ~Kept(r) THEN acc
    ELSE IF RaisesOnAdd(r) THEN [acc EXCEPT !.raised = TRUE]
    ELSE [contexts |-> Append(acc.contexts, TextOf(r)),
          sources |-> acc.sources \cup {SourceOf(r)},
          guide_ids |-> acc.guide_ids \cup
                           (IF Truthy(GuideIdOf(r)) THEN {GuideIdOf(r)} ELSE {}),
          images_per_context |-> AppendImages(acc.images_per_context, ImagesOf(r)),
          guide_info |-> AppendInfo(acc.guide_info, r),
          raised |-> FALSE]

\* The loop over the first n results.
RECURSIVE Aggregate(_, _)
Aggregate(rs, n) == IF n = 0 THEN NoneFound ELSE Visit(Aggregate(rs, n - 1), rs[n])

\* list(S) of a set: its elements once each, in an order the code does not fix.
ListOf(S) ==
    {q \in [1..Cardinality(S) -> S] : \A a, b \in 1..Cardinality(S) : a # b => q[a] # q[b]}

\* The dicts QdrantStorage.search can return for the results rs.
SearchReturns(rs) ==
    LET acc == Aggregate(rs, Len(rs))
    IN  {[contexts |-> acc.contexts, sources |-> srcs, guide_ids |-> ids,
          images_per_context |-> acc.images_per_context, guide_info |-> acc.guide_info] :
            srcs \in ListOf(acc.sources), ids \in ListOf(acc.guide_ids)}

SearchRaises(rs) == Aggregate(rs, Len(rs)).raised

\* RAGSearchResult(contexts=..., sources=..., guide_ids=...): the fields not
\* passed take their default, an empty list.
RAGSearchResult(f) ==
    [contexts |-> f.contexts, sources |-> f.sources, guide_ids |-> f.guide_ids,
     images_per_context |-> <<>>, guide_info |-> <<>>]

\* QdrantStorage.search: the index request fails ("unavailable"), or the
\* aggregation of its results raises or returns.
Search ==
    /\ searchPc = "search"
    /\ \/ /\ searchPc' = "unavailable"
          /\ UNCHANGED found
       \/ /\ SearchRaises(results)
          /\ searchPc' = "raised"
          /\ UNCHANGED found
       \/ /\ ~SearchRaises(results)
          /\ found' \in SearchReturns(results)
          /\ searchPc' = "found"
    /\ UNCHANGED <<results, retrieved>>
    /\ UNCHANGED <<sagaVars, hostVars, ingestVars, alignVars, uiVars>>

\* _retrieve_context: embeds the question and searches (either request can
\* fail: "unavailable"), and builds the result from what the search returned.
RetrieveContext ==
    /\ searchPc = "search"
    /\ \/ /\ searchPc' = "unavailable"
          /\ UNCHANGED <<found, retrieved>>
       \/ /\ SearchRaises(results)
          /\ searchPc' = "raised"
          /\ UNCHANGED <<found, retrieved>>
       \/ /\ ~SearchRaises(results)
          /\ \E f \in SearchReturns(results) :
                /\ found' = f
                /\ retrieved' = RAGSearchResult(f)
          /\ searchPc' = "retrieved"
    /\ UNCHANGED results
    /\ UNCHANGED <<sagaVars, hostVars, ingestVars, alignVars, uiVars>>

SearchInit ==
    /\ OthersIdle
    /\ AlignIdle
    /\ UiIdle
    /\ results \in Batches
    /\ found = <<>>
    /\ retrieved = <<>>
    /\ searchPc = "search"

SearchNext == Search \/ RetrieveContext

SpecSearch == SearchInit /\ [][SearchNext]_vars

\* ---- the read operations on the index, beside ingestion -----------------

\* The top_k of the queries.
TopKs == {1}

\* A constructor that creates the collection anew, dropping its points.
EnsureCollection_Recreate(points) == {}

\* QdrantStorage(): create_collection is called only if the collection does
\* not exist, so the points of an existing collection stay as they are.
EnsureCollection(points) == points

\* The stored payload as the index returns it.
PyPayload(p) ==
    PyDict([text     |-> PyStr(p.payload.text),
            source   |-> PyStr(p.payload.source),
            guide_id |-> PyInt(p.payload.guide_id)])

\* client.search: the top_k best points of the collection, best first; which
\* points score best depends on the query vector.
Rankings(points, top_k) ==
    LET n == Min(top_k, Cardinality(points))
    IN  {q \in [1..n -> points] : \A a, b \in 1..n : a # b => q[a] # q[b]}

ScoredPoints(q) == [k \in 1..Len(q) |-> [payload |-> PyPayload(q[k])]]

\* sorted(..., key=guide_id) of the guide ids S
RECURSIVE SortedIds(_)
SortedIds(S) ==
    IF S = {} THEN <<>>
    ELSE LET least == CHOOSE x \in S : \A y \in S : x <= y
         IN  <<least>> \o SortedIds(S \ {least})

\* What list_guides can return: one record per guide id in the collection,
\* with the source of the point of that guide the scroll met first, sorted by
\* guide id.
ListReturns(points) ==
    LET ids == {p.payload.guide_id : p \in points}
        order == SortedIds(ids)
        firsts == {f \in [ids -> {p.payload.source : p \in points}] :
                     \A g \in ids : \E p \in points :
                        p.payload.guide_id = g /\ p.payload.source = f[g]}
    IN  {[k \in 1..Len(order) |-> [guide_id |-> order[k], source |-> f[order[k]]]] :
            f \in firsts}

ReadRaised(op) == <<[op |-> op, raised |-> TRUE]>>

\* with QdrantStorage() as store: store.search(query_vec, top_k)
SearchIndex ==
    /\ steps # <<>>
    /\ \/ reads' = ReadRaised("search") /\ UNCHANGED index
       \/ /\ index' = EnsureCollection(index)
          /\ \E top_k \in TopKs : \E q \in Rankings(index', top_k) :
                /\ ~SearchRaises(ScoredPoints(q))
                /\ \E f \in SearchReturns(ScoredPoints(q)) :
                      reads' = <<[op |-> "search", top_k |-> top_k, returned |-> f]>>
    /\ UNCHANGED <<sagaVars, hostVars, steps, alignVars, searchVars, chat, front>>

\* with QdrantStorage() as store: store.list_guides()
ListGuides ==
    /\ steps # <<>>
    /\ \/ reads' = ReadRaised("list_guides") /\ UNCHANGED index
       \/ /\ index' = EnsureCollection(index)
          /\ \E guides \in ListReturns(index') :
                reads' = <<[op |-> "list_guides", returned |-> guides]>>
    /\ UNCHANGED <<sagaVars, hostVars, steps, alignVars, searchVars, chat, front>>

\* with QdrantStorage() as storage: storage.count()
Count ==
    /\ steps # <<>>
    /\ \/ reads' = ReadRaised("count") /\ UNCHANGED index
       \/ /\ index' = EnsureCollection(index)
          /\ reads' = <<[op |-> "count", returned |-> Cardinality(index')]>>
    /\ UNCHANGED <<sagaVars, hostVars, steps, alignVars, searchVars, chat, front>>

\* The ingestion steps of two guides of the saga, and read operations at any
\* time.
ReadInit ==
    /\ IngestInit
    /\ \A n \in StepNos : steps[n].path = "saga" /\ steps[n].guide_id = n

ReadNext ==
    \/ IngestNext
    \/ SearchIndex
    \/ ListGuides
    \/ Count

SpecRead == ReadInit /\ [][ReadNext]_vars

\* ---- the chat query path: chat_endpoint ----------------------------------

\* The messages of a chat request (at least one): role and content, the
\* content as whitespace around other characters.
Msg(role, content) == [role |-> role, content |-> content]

MessageLists ==
    { <<Msg("user", Text(1, 8))>>,
      <<Msg("user", Text(2, 0))>>,
      <<Msg("system", Text(0, 5))>>,
      <<Msg("user", Text(0, 8)), Msg("assistant", Text(0, 4))>>,
      <<Msg("user", Text(0, 8)), Msg("assistant", Text(0, 4)), Msg("user", Text(0, 0))>> }

Tokens == {PyNull, PyStr(""), PyStr("tok")}

ChatRequests == [messages : MessageLists, token : Tokens]

\* The result batches of the chat queries.
ChatBatches == {b \in Batches : Len(b) <= 2}

\* next((msg for msg in reversed(messages) if msg.role == "user"), None)
RECURSIVE LatestUser(_)
LatestUser(msgs) ==
    IF msgs = <<>> THEN PyNull
    ELSE IF msgs[Len(msgs)].role = "user" THEN msgs[Len(msgs)]
    ELSE LatestUser(SubSeq(msgs, 1, Len(msgs) - 1))

HTTPException(status_code, detail) == [status |-> status_code, detail |-> detail]

Called(op, ok) == [op |-> op, ok |-> ok]
Fetched(gid, ok) == [op |-> "fetch_guide", gid |-> gid, ok |-> ok]

\* A collector that lists a guide whose fetch failed under its default title.
RECURSIVE CollectSourceGuides_KeepFailed(_, _, _)
CollectSourceGuides_KeepFailed(guide_ids, token, failing) ==
    IF guide_ids = <<>> \/ ~Truthy(token) THEN <<>>
    ELSE <<[guide_id |-> guide_ids[1],
            title |-> IF guide_ids[1] \in failing THEN <<"Guide", guide_ids[1]>>
                      ELSE <<"Title", guide_ids[1]>>,
            url |-> IF guide_ids[1] \in failing THEN "" ELSE "url"]>>
             \o CollectSourceGuides_KeepFailed(Tail(guide_ids), token, failing)

\* _collect_source_guides(guide_ids, token): nothing without ids or token;
\* otherwise one record per guide whose fetch returned, in the order of the
\* ids; a fetch that raises is logged and skipped.
RECURSIVE CollectSourceGuides(_, _, _)
CollectSourceGuides(guide_ids, token, failing) ==
    IF guide_ids = <<>> \/ ~Truthy(token) THEN <<>>
    ELSE (IF guide_ids[1] \in failing THEN <<>>
          ELSE <<[guide_id |-> guide_ids[1], title |-> <<"Title", guide_ids[1]>>,
                  url |-> "url"]>>)
             \o CollectSourceGuides(Tail(guide_ids), token, failing)

\* The fetch_guide calls of _collect_source_guides.
FetchCalls(guide_ids, token, failing) ==
    IF ~Truthy(token) THEN <<>>
    ELSE [k \in 1..Len(guide_ids) |-> Fetched(guide_ids[k], guide_ids[k] \notin failing)]

ChatReturn(r) == chat' = [chat EXCEPT !.pc = "done", !.reply = r]

\* The request is rejected unless its latest user message has content.
ChatValidate ==
    /\ chat # <<>>
    /\ chat.pc = "start"
    /\ LET latest == LatestUser(chat.request.messages)
       IN  IF latest = PyNull
           THEN ChatReturn(HTTPException(400, "At least one user message is required."))
           ELSE IF Strip(latest.content).len = 0
           THEN ChatReturn(HTTPException(400, "User message content cannot be empty."))
           ELSE chat' = [chat EXCEPT !.pc = "search"]
    /\ UNCHANGED <<sagaVars, hostVars, ingestVars, alignVars, searchVars, reads, front>>

\* try: search_result = _retrieve_context(question, top_k); any exception of
\* the embedding or of the search gives the 500 reply.
ChatSearch ==
    /\ chat # <<>>
    /\ chat.pc = "search"
    /\ \/ /\ chat' = [chat EXCEPT
                        !.pc = "done",
                        !.calls = Append(chat.calls, Called("embed_texts", FALSE)),
                        !.reply = HTTPException(500, "Failed to search knowledge base.")]
          /\ searchPc' = "unavailable"
          /\ UNCHANGED <<found, retrieved>>
       \/ /\ \E pcAfter \in {"unavailable"} \cup (IF SearchRaises(results) THEN {"raised"} ELSE {}) :
                searchPc' = pcAfter
          /\ chat' = [chat EXCEPT
                        !.pc = "done",
                        !.calls = chat.calls \o <<Called("embed_texts", TRUE),
                                                 Called("search", FALSE)>>,
                        !.reply = HTTPException(500, "Failed to search knowledge base.")]
          /\ UNCHANGED <<found, retrieved>>
       \/ /\ ~SearchRaises(results)
          /\ \E f \in SearchReturns(results) :
                /\ found' = f
                /\ retrieved' = RAGSearchResult(f)
          /\ searchPc' = "retrieved"
          /\ chat' = [chat EXCEPT
                        !.pc = "generate",
                        !.calls = chat.calls \o <<Called("embed_texts", TRUE),
                                                 Called("search", TRUE)>>]
    /\ UNCHANGED results
    /\ UNCHANGED <<sagaVars, hostVars, ingestVars, alignVars, reads, front>>

\* try: answer = _invoke_claude_with_context(...); any exception gives the
\* 502 reply.
ChatGenerate ==
    /\ chat # <<>>
    /\ chat.pc = "generate"
    /\ \/ chat' = [chat EXCEPT
                     !.pc = "done",
                     !.calls = Append(chat.calls, Called("invoke_model", FALSE)),
                     !.reply = HTTPException(502, "Failed to generate an answer.")]
       \/ chat' = [chat EXCEPT
                     !.pc = "collect",
                     !.calls = Append(chat.calls, Called("invoke_model", TRUE))]
    /\ UNCHANGED <<sagaVars, hostVars, ingestVars, alignVars, searchVars, reads, front>>

\* source_guides = _collect_source_guides(search_result.guide_ids, token) and
\* the RAQQueryResult of the reply.
ChatCollect ==
    /\ chat # <<>>
    /\ chat.pc = "collect"
    /\ \E failing \in SUBSET {retrieved.guide_ids[k] : k \in 1..Len(retrieved.guide_ids)} :
          chat' = [chat EXCEPT
                     !.pc = "done",
                     !.calls = chat.calls
                                  \o FetchCalls(retrieved.guide_ids, chat.request.token, failing),
                     !.reply = [status |-> 200,
                                answer |-> "answer",
                                sources |-> retrieved.sources,
                                num_contexts |-> Len(retrieved.contexts),
                                source_guides |->
                                    CollectSourceGuides(retrieved.guide_ids,
                                                        chat.request.token, failing)]]
    /\ UNCHANGED <<sagaVars, hostVars, ingestVars, alignVars, searchVars, reads, front>>

ChatInit ==
    /\ OthersIdle
    /\ AlignIdle
    /\ results \in ChatBatches
    /\ found = <<>>
    /\ retrieved = <<>>
    /\ searchPc = "search"
    /\ reads = <<>>
    /\ front = <<>>
    /\ \E req \in ChatRequests :
          chat = [request |-> req, pc |-> "start", calls |-> <<>>, reply |-> NoResult]

ChatNext ==
    \/ ChatValidate
    \/ ChatSearch
    \/ ChatGenerate
    \/ ChatCollect

SpecChat == ChatInit /\ [][ChatNext]_vars

\* ---- the front end's site ingestion panel --------------------------------

\* The session state at the first script run: dozuki_token,
\* site_ingestion_active, site_ingestion_event_id, site_resume_offset; with
\* them the trigger events the panel has sent, the runs of these events on the
\* host (one per event, executed one after the other), the number of pause
\* events sent and not yet taken, the run outputs on which the progress
\* polling reset a stored offset to 0, and the event whose send the script run
\* of the start button is waiting for (None when no script run waits).
NewSession ==
    [token         |-> PyNull,
     active        |-> FALSE,
     event_id      |-> None,
     resume_offset |-> 0,
     events        |-> <<>>,
     runs          |-> <<>>,
     pause_pending |-> 0,
     resets        |-> {},
     sending       |-> None]

QueuedRun == [state |-> "Queued"]

\* What the run of the last event sent so far has come to.
LastRun(f) == IF f.runs = <<>> THEN [state |-> "none"] ELSE f.runs[Len(f.runs)]

\* The loop indices at which a run started at offset r over total guides can
\* return paused: the pause checks i > 0, i % PauseEvery = 0 of its loop.
PauseOffsets(r, total) == {j \in r..(total - 1) : j > 0 /\ j % PauseEvery = 0}

\* A run whose pause check at loop index j has taken the pause event and that
\* has not returned yet.
PausingRun(j) == [state |-> "Pausing", resume_offset |-> j]

\* How a run can end: one that took no pause event completes or fails, one
\* that took the pause event at index j returns paused there or fails in the
\* send of its paused event.
RunOutcomes(run) ==
    {[state |-> "Failed"]}
        \cup IF run.state = "Pausing"
             THEN {[state |-> "Returned",
                    output |-> [status |-> "paused", resume_offset |-> run.resume_offset]]}
             ELSE {[state |-> "Returned", output |-> [status |-> "completed"]]}

\* What fetch_runs reports of a run: a status and, for a run that returned,
\* its output.
RunViews(run) ==
    CASE run.state \in {"Queued", "Pausing"} -> {[status |-> "Running"]}
      [] run.state = "Failed" -> {[status |-> "Failed"]}
      [] run.state = "Returned" ->
            {[status |-> st, output |-> run.output] : st \in {"Completed", "Running"}}

\* The branches of the progress polling on runs[0]: completed, failed, an
\* output with status paused, or still running.
PollRun(f, view) ==
    IF view.status \in {"Completed", "Succeeded", "Success", "Finished"}
    THEN [f EXCEPT !.active = FALSE,
                   !.resume_offset = 0,
                   !.resets = IF f.resume_offset # 0
                              THEN f.resets \cup {Get(view, "output", NoResult)}
                              ELSE f.resets]
    ELSE IF view.status \in {"Failed", "Cancelled"}
    THEN [f EXCEPT !.active = FALSE]
    ELSE IF "output" \in DOMAIN view
    THEN IF view.output.status = "paused"
         THEN [f EXCEPT !.active = FALSE,
                        !.resume_offset = Get(view.output, "resume_offset", 0)]
         ELSE f
    ELSE f

FrontUnchanged ==
    UNCHANGED <<sagaVars, hostVars, ingestVars, alignVars, searchVars, reads, chat>>

\* The login form, shown while the session has no token: a successful
\* authentication stores the token (a failed one, or a reply without a token,
\* leaves the session logged out).
Login ==
    /\ front # <<>>
    /\ ~Truthy(front.token)
    /\ front' = [front EXCEPT !.token = PyStr("tok")]
    /\ FrontUnchanged

\* The logout button, shown while the session has a token.
Logout ==
    /\ front # <<>>
    /\ Truthy(front.token)
    /\ front.sending = None
    /\ front' = [front EXCEPT !.token = PyNull, !.active = FALSE, !.event_id = None]
    /\ FrontUnchanged

\* The polling block has a run to show: the session is active with an event id.
Polling(f) == f.active /\ f.event_id # None

\* 'Still running': the run has not ended and has no output; the script run
\* sleeps and ends in st.rerun(), so nothing below the polling block is reached.
StillRunning(view) ==
    /\ view.status \notin {"Completed", "Succeeded", "Success", "Finished", "Failed", "Cancelled"}
    /\ "output" \notin DOMAIN view

\* The session as the polling block leaves it when the script run goes on
\* below it: after one of its branches, or after the exception that ends the
\* tracking; the session itself when the block is not entered.
Polled(f) ==
    IF Polling(f)
    THEN {[f EXCEPT !.active = FALSE]}
            \cup {PollRun(f, view) : view \in {w \in RunViews(f.runs[f.event_id]) : ~StillRunning(w)}}
    ELSE {f}

\* The 'Clear Non-Auth State' button of the development tab, which the script
\* run reaches after the polling block: the click has no effect while the
\* polled run is still running, and otherwise the handler runs on the session
\* as the polling block left it.
ClearState ==
    /\ front # <<>>
    /\ Truthy(front.token)
    /\ front.sending = None
    /\ \E f \in Polled(front) :
          front' = [f EXCEPT !.active = FALSE, !.event_id = None, !.resume_offset = 0]
    /\ FrontUnchanged

\* The start/resume button: shown to a logged-in session while no ingestion
\* is active; marks the session active and sends the trigger event with the
\* stored offset.  The script run then waits until the send has returned: the
\* host holds the event and may run it.  If the send raises, the script run
\* ends and the session is left active without a new event.
ClickStart ==
    /\ front # <<>>
    /\ Truthy(front.token)
    /\ front.sending = None
    /\ ~front.active
    /\ Len(front.events) < MaxStarts
    /\ \/ front' = [front EXCEPT
                      !.active = TRUE,
                      !.sending = Len(front.events) + 1,
                      !.events = Append(front.events,
                                        [site_id |-> DefaultSiteId,
                                         resume_offset |-> front.resume_offset,
                                         after |-> LastRun(front)]),
                      !.runs = Append(front.runs, QueuedRun)]
       \/ front' = [front EXCEPT !.active = TRUE]
    /\ FrontUnchanged

\* The send of the trigger event has returned: the script run stores the id
\* of the event and ends in st.rerun().
StoreEventId ==
    /\ front # <<>>
    /\ front.sending # None
    /\ front' = [front EXCEPT !.event_id = front.sending, !.sending = None]
    /\ FrontUnchanged

\* The pause button: shown while an ingestion is active; sends a pause
\* event and marks the session inactive (a send that raises changes nothing).
\* A session sends at most MaxPauses pause events.
ClickPause ==
    /\ front # <<>>
    /\ Truthy(front.token)
    /\ front.sending = None
    /\ front.active
    /\ front.pause_pending < MaxPauses
    /\ front' = [front EXCEPT !.pause_pending = front.pause_pending + 1, !.active = FALSE]
    /\ FrontUnchanged

\* A script run with an active session that has an event id: fetch_runs and
\* the branches on the run; an exception ends the tracking.
Poll ==
    /\ front # <<>>
    /\ Truthy(front.token)
    /\ front.sending = None
    /\ Polling(front)
    /\ \/ front' = [front EXCEPT !.active = FALSE]
       \/ \E view \in RunViews(front.runs[front.event_id]) :
             front' = PollRun(front, view)
    /\ front' # front
    /\ FrontUnchanged

\* The run the host is executing: the first that has not ended (the runs are
\* executed one after the other).
Executing(f, k) ==
    /\ k \in 1..Len(f.runs)
    /\ f.runs[k].state \in {"Queued", "Pausing"}
    /\ \A j \in 1..(k - 1) : f.runs[j].state \notin {"Queued", "Pausing"}

\* A pause check of the executing run takes one pending pause event.
RunPauses ==
    /\ front # <<>>
    /\ front.pause_pending > 0
    /\ \E k \in 1..Len(front.runs) :
          /\ Executing(front, k)
          /\ front.runs[k].state = "Queued"
          /\ \E j \in PauseOffsets(front.events[k].resume_offset, ScenarioGuides) :
                front' = [front EXCEPT !.runs[k] = PausingRun(j),
                                      !.pause_pending = front.pause_pending - 1]
    /\ FrontUnchanged

\* The executing run ends: it returns completed, returns paused after the
\* pause check that took the pause event, or fails.
RunEnds ==
    /\ front # <<>>
    /\ \E k \in 1..Len(front.runs) :
          /\ Executing(front, k)
          /\ \E out \in RunOutcomes(front.runs[k]) :
                front' = [front EXCEPT !.runs[k] = out]
    /\ FrontUnchanged

FrontInit ==
    /\ OthersIdle
    /\ AlignIdle
    /\ SearchIdle
    /\ reads = <<>>
    /\ chat = <<>>
    /\ front = NewSession

FrontNext ==
    \/ Login
    \/ Logout
    \/ ClearState
    \/ ClickStart
    \/ StoreEventId
    \/ ClickPause
    \/ Poll
    \/ RunPauses
    \/ RunEnds

SpecFront == FrontInit /\ [][FrontNext]_vars

\* ---- helpers of the properties -------------------------------------------

Range(q) == {q[k] : k \in 1..Len(q)}
Ascending(q) == \A k \in 1..(Len(q) - 1) : q[k] < q[k + 1]

\* The loop indices lo..hi-1 in ascending order.
RECURSIVE Indices(_, _)
Indices(lo, hi) == IF lo >= hi THEN <<>> ELSE <<lo>> \o Indices(lo + 1, hi)

\* The loop indices lo..total_guides-1 whose guide carries an id, ascending.
RECURSIVE IdIndices(_)
IdIndices(lo) ==
    IF lo >= total_guides THEN <<>>
    ELSE IF HasId(lo) THEN <<lo>> \o IdIndices(lo + 1)
    ELSE IdIndices(lo + 1)

Status(e) == Get(e, "status", "<none>")
RunEnded == pc = "done"
EndedAs(st) == RunEnded /\ result.status = st
PauseDelivered == pausedBy # NoResult

\* ---- C1 ------------------------------------------------------------------

\* The list access of the first iteration raises IndexError: resume_offset is
\* below -total.
FirstAccessRaises == resume_offset < total_guides /\ ~InRange(resume_offset)

IsPrefix(p, q) == Len(p) <= Len(q) /\ p = SubSeq(q, 1, Len(p))

\* C1 as stated: a run with 0 <= resume_offset N <= total during which no pause
\* is delivered attempts exactly the indices N..total-1, each once, ascending.
C1_AllIndicesAttempted ==
    (RunEnded /\ ~PauseDelivered /\ 0 <= resume_offset /\ resume_offset <= total_guides)
        => attempted = Indices(resume_offset, total_guides)

\* C1 (amended): at every moment of a run the attempted indices are strictly
\* ascending (each at most once), none is below resume_offset, and they are an
\* initial part of the indices in [resume_offset, total) whose guide carries an
\* id, in catalog order; a run to which no pause is delivered has attempted all
\* of them when it returns completed, and ends otherwise only as failed, by
\* an exception raised outside the per-guide try block.
C1_ResumeRange ==
    /\ Ascending(attempted)
    /\ \A j \in Range(attempted) : j >= resume_offset /\ j < total_guides /\ HasId(j)
    /\ IF FirstAccessRaises THEN attempted = <<>>
       ELSE IsPrefix(attempted, IdIndices(resume_offset))
    /\ (EndedAs("completed") /\ ~PauseDelivered)
          => ~FirstAccessRaises /\ attempted = IdIndices(resume_offset)
    /\ (RunEnded /\ ~PauseDelivered) => result.status \in {"completed", "failed"}
    /\ EndedAs("failed")
          => result.step \in {"init-progress", "fetch-list", "update-progress", "guide-summary",
                              "pause-check", "paused", "error", "completed"}

C1_Witness ==
    /\ EndedAs("completed")
    /\ ~PauseDelivered
    /\ resume_offset = 2
    /\ total_guides = 6
    /\ ~HasId(4)
    /\ checked = {5}
    /\ attempted = <<2, 3, 5>>

\* ---- C2 ------------------------------------------------------------------

ErrorEvents == {k \in 1..Len(sent) : "error" \in DOMAIN sent[k]}

\* The loop indices whose ingestion step raised in this run.
FailedIndices ==
    {j \in Range(attempted) :
        \E k \in 1..Len(errors) :
            /\ errors[k].guide_id = Get(GuideAt(j), "guideid", None)
            /\ errors[k].error[1] = "Failed to process guide"}

\* C2 as stated: once the ingestion step of a guide has failed, the run ends
\* completed and has attempted every guide after the failed one.
C2_AlwaysCompleted ==
    (RunEnded /\ FailedIndices # {})
        => /\ EndedAs("completed")
           /\ \A f \in FailedIndices :
                 \A j \in (f + 1)..(total_guides - 1) : j \in Range(attempted)

\* C2 (amended): a failing ingestion step is recorded as {guide_id, title,
\* error} for the guide that failed and an error progress event follows the
\* record; the failure itself never ends the run: the loop goes on behind the
\* failed guide, so that every guide with an id between the failed one and
\* the loop index has been attempted; the run returns completed with every
\* later guide with an id attempted, or paused at a later pause check, or it
\* fails by an exception raised outside the per-guide try block.
C2_ContinueOnError ==
    /\ \A k \in 1..Len(errors) :
          /\ DOMAIN errors[k] = {"guide_id", "title", "error"}
          /\ \E j \in Range(attempted) :
                /\ errors[k].guide_id = Get(GuideAt(j), "guideid", None)
                /\ errors[k].title = Get(GuideAt(j), "title", <<"Guide", errors[k].guide_id>>)
    /\ pc = "error" => Cardinality(ErrorEvents) = Len(errors) - 1
    /\ pc \in {"pause_check", "paused", "process_guide", "progress", "completed"}
          => Cardinality(ErrorEvents) = Len(errors)
    /\ \A k \in ErrorEvents : sent[k].failed_guides >= 1 /\ sent[k].error[1] = "Failed to process guide"
    /\ \A f \in FailedIndices :
          /\ \A j \in (f + 1)..(i - 1) : HasId(j) => j \in Range(attempted)
          /\ pc \in {"pause_check", "paused", "process_guide", "completed"} => i > f
          /\ RunEnded
                => \/ EndedAs("completed") /\ i >= total_guides
                   \/ EndedAs("paused") /\ i > f /\ i \in checked /\ result.resume_offset = i
                   \/ /\ EndedAs("failed")
                      /\ result.step \in {"pause-check", "paused", "error", "completed"}

C2_Witness ==
    /\ EndedAs("completed")
    /\ total_guides = 4
    /\ attempted = <<0, 1, 2, 3>>
    /\ FailedIndices = {1}
    /\ Len(errors) = 1
    /\ Cardinality(ErrorEvents) = 1
    /\ result.failed_guides = 1
    /\ result.processed_guides = 3

\* ---- C3 ------------------------------------------------------------------

C3_Paused ==
    /\ PauseDelivered
          => /\ pc \in {"paused", "done"}
             /\ i \in checked
             /\ \A j \in Range(attempted) : j < i
             /\ RunEnded => result.status \in {"paused", "failed"}
    /\ EndedAs("paused")
          => /\ PauseDelivered
             /\ result.resume_offset = i
             /\ sent # <<>>
             /\ Status(sent[Len(sent)]) = "paused"
             /\ sent[Len(sent)].resume_offset = i
             /\ i \notin Range(attempted)

C4_ChainCoverage ==
    faithful
        => /\ Ascending(chain)
           /\ (EndedAs("completed") /\ offset0 <= total_guides) => chain = IdIndices(offset0)

C4_Witness ==
    /\ EndedAs("completed")
    /\ faithful
    /\ runNo = 2
    /\ offset0 = 0
    /\ total_guides = PauseEvery + 1
    /\ resume_offset = PauseEvery
    /\ attempted = Indices(PauseEvery, PauseEvery + 1)
    /\ chain = Indices(0, PauseEvery + 1)

\* ---- C5 ------------------------------------------------------------------

\* C5: a pause request for the run's catalog that is sent in the processing
\* phase while at least PauseEvery guides with an id are still to come is
\* honored: such a run does not return completed.
C5_PauseHonored == EndedAs("completed") => ~earlyPause

\* ---- C6 ------------------------------------------------------------------

\* The loop indices the run has passed.
Visited ==
    IF pc \in {"init_progress", "fetch_list", "update_progress"} \/ EndedAs("failed") THEN {}
    ELSE {j \in resume_offset..(total_guides - 1) : j < i}

\* Guides ingested since the last pause check (or since the start of the run).
SinceCheck ==
    Cardinality({k \in 1..Len(attempted) : \A c \in checked : attempted[k] >= c})

\* C6: at most PauseEvery guides are ingested between two consecutive pause
\* checks, and every loop index passed that is a positive multiple of
\* PauseEvery had a pause check.
C6_PolledEveryFive ==
    /\ SinceCheck <= PauseEvery
    /\ \A j \in Visited : (j > 0 /\ j % PauseEvery = 0) => j \in checked

\* ---- C7 ------------------------------------------------------------------

GuideEvents == {k \in 1..Len(sent) : Status(sent[k]) = "processing" \/ "error" \in DOMAIN sent[k]}

\* C7: a run is at its paused return only at a loop index where a pause check
\* is due and has run, with no ingestion step in flight: every guide whose step
\* the run started has been counted and has had its progress or error event
\* emitted before the paused event.
C7_NotPreemptive ==
    (pc = "paused" \/ EndedAs("paused"))
        => /\ PauseCheckDue(i)
           /\ i \in checked
           /\ Cardinality(GuideEvents) = Len(attempted)
           /\ processed + Len(errors) >= Len(attempted)
           /\ \A k \in GuideEvents : k < Len(sent) \/ pc = "paused"
           /\ \A j \in Range(attempted) :
                 \/ \E k \in GuideEvents :
                       Get(sent[k], "current_guide", <<>>) =
                           Get(GuideAt(j), "title", <<"Guide", Get(GuideAt(j), "guideid", None)>>)
                 \/ \E k \in 1..Len(errors) :
                       errors[k].guide_id = Get(GuideAt(j), "guideid", None)

C7_Witness ==
    /\ EndedAs("paused")
    /\ result.resume_offset = 5
    /\ Len(attempted) = 5
    /\ Len(errors) = 1
    /\ processed = 4
    /\ Cardinality(GuideEvents) = 5

\* ---- C8 ------------------------------------------------------------------

\* C8: a run returns paused only on a pause event whose site_id names the
\* catalog the run ingests.
C8_PauseKeyedByCatalog ==
    (pc = "paused" \/ EndedAs("paused")) => pausedBy.site_id = site_id

\* ---- C9 ------------------------------------------------------------------

\* C9: no two runs that ingest the same catalog execute at the same time.
C9_MutualExclusion ==
    \A a, b \in active : a # b => CatalogOf(a.data) # CatalogOf(b.data)

\* ---- C10 -----------------------------------------------------------------

Terminal == {"paused", "completed"}

\* C10: the first progress event of a run has status fetching and precedes
\* every ingestion; fetching is reported once, then processing (or error
\* events, which carry no status), then at most one of paused / completed as
\* the last event; the run ends exactly when it has returned paused or
\* completed, matching its last event, or has raised.
C10_StatusMachine ==
    /\ sent # <<>> => Status(sent[1]) = "fetching"
    /\ attempted # <<>> => sent # <<>>
    /\ \A k \in 2..Len(sent) : Status(sent[k]) \in {"processing", "<none>", "paused", "completed"}
    /\ \A k \in 1..(Len(sent) - 1) : Status(sent[k]) \notin Terminal
    /\ RunEnded <=> result.status \in {"paused", "completed", "failed"}
    /\ result.status \in {"none", "paused", "completed", "failed"}
    /\ result.status \in Terminal
          => sent # <<>> /\ Status(sent[Len(sent)]) = result.status
    /\ (result.status \notin Terminal /\ sent # <<>>)
          => Status(sent[Len(sent)]) \notin Terminal

C10_Witness ==
    /\ EndedAs("completed")
    /\ Len(sent) = 5
    /\ Status(sent[1]) = "fetching"
    /\ Status(sent[2]) = "processing"
    /\ Status(sent[3]) = "<none>"
    /\ Status(sent[4]) = "processing"
    /\ Status(sent[5]) = "completed"

\* ---- C11 -----------------------------------------------------------------

ProgressStatuses == {"fetching", "processing", "paused", "completed", "failed"}
CoreFields ==
    {"site_id", "status", "total_guides", "processed_guides", "failed_guides", "total_chunks"}

\* C11: every progress event a run emits (the total-known event, the
\* per-guide success and error events, the paused and the completed event)
\* carries site_id, a status among fetching / processing / paused / completed /
\* failed, total_guides, processed_guides, failed_guides and total_chunks.
C11_EventShape ==
    \A k \in 1..Len(sent) :
        /\ CoreFields \subseteq DOMAIN sent[k]
        /\ sent[k].status \in ProgressStatuses

\* ---- C12 -----------------------------------------------------------------

\* The error records left by an ingestion step that raised, and their number.
StepErrors == {k \in 1..Len(errors) : errors[k].error[1] = "Failed to process guide"}
StepFailures == Cardinality(StepErrors)

\* The guide ids of the attempts, and of the attempts whose step raised, in order.
AttemptedIds == [k \in 1..Len(attempted) |-> Get(GuideAt(attempted[k]), "guideid", None)]
FailedIds ==
    LET failed == SelectSeq(errors, LAMBDA e : e.error[1] = "Failed to process guide")
    IN  [k \in 1..Len(failed) |-> failed[k].guide_id]

\* The chunks of the guides ids names, summed.
RECURSIVE SumChunks(_)
SumChunks(ids) ==
    IF ids = <<>> THEN 0 ELSE load_and_chunk_guide(Head(ids)) + SumChunks(Tail(ids))

\* C12: a run that completes returns status completed and emits a completed
\* event with the same counters as its last event; processed_guides is the
\* number of guides whose ingestion step succeeded in this run, failed_guides
\* the length of the error list, total_chunks the sum of the chunk counts of
\* the succeeded guides, and errors lists the failures in the order they
\* occurred; a fresh run over a catalog whose guides all have an id and all
\* succeed reports processed_guides = total_guides.
C12_CompletedSummary ==
    EndedAs("completed")
        => /\ Status(sent[Len(sent)]) = "completed"
           /\ \A f \in {"processed_guides", "failed_guides", "total_chunks", "errors"} :
                 sent[Len(sent)][f] = result[f]
           /\ sent[Len(sent)].total_guides = total_guides
           /\ result.processed_guides = Len(attempted) - StepFailures
           /\ result.failed_guides = Len(result.errors)
           /\ result.total_chunks = SumChunks(AttemptedIds) - SumChunks(FailedIds)
           /\ result.errors = errors
           /\ \E at \in [1..Len(errors) -> 1..Len(attempted)] :
                 /\ \A k \in 1..(Len(errors) - 1) : at[k] < at[k + 1]
                 /\ \A k \in 1..Len(errors) :
                       errors[k].guide_id = Get(GuideAt(attempted[at[k]]), "guideid", None)
           /\ (resume_offset = 0 /\ errors = <<>> /\ \A j \in 0..(total_guides - 1) : HasId(j))
                 => result.processed_guides = total_guides

C12_Witness ==
    /\ EndedAs("completed")
    /\ resume_offset = 0
    /\ total_guides = MaxGuides
    /\ \A j \in 0..(total_guides - 1) : HasId(j)
    /\ Len(errors) = 2
    /\ errors[1].guide_id = 2
    /\ errors[2].guide_id = 5
    /\ FailedIndices = {1, 4}
    /\ result.failed_guides = 2
    /\ result.processed_guides = MaxGuides - 2
    /\ result.total_chunks = SumChunks(<<1, 3, 4, 6>>)
    /\ result.total_chunks > 0

\* ---- C13 -----------------------------------------------------------------

\* C13: a run that pauses surfaces, together with its status and
\* resume_offset, the list of the errors accumulated so far.
C13_PausedErrors ==
    EndedAs("paused")
        => /\ result.resume_offset = i
           /\ "errors" \in DOMAIN result
           /\ result.errors = errors

\* ---- C15 -----------------------------------------------------------------

\* C15: a guide summary without an id is skipped: no ingestion step runs for
\* it, no error record and no per-guide event names it, and it adds nothing to
\* processed_guides or failed_guides, which count attempted guides only.
C15_IdlessSkipped ==
    /\ \A k \in 1..Len(attempted) : HasId(attempted[k])
    /\ \A k \in 1..Len(errors) :
          /\ errors[k].guide_id # None
          /\ \E j \in 1..Len(attempted) :
                errors[k].guide_id = Get(GuideAt(attempted[j]), "guideid", None)
    /\ processed + StepFailures = Len(attempted)
    /\ Len(errors) <= Len(attempted)
    /\ Cardinality(GuideEvents) <= Len(attempted)
    /\ EndedAs("completed")
          => result.processed_guides + StepFailures
                = Cardinality({j \in resume_offset..(total_guides - 1) : HasId(j)})

C15_Witness ==
    /\ EndedAs("completed")
    /\ resume_offset = 0
    /\ total_guides = 4
    /\ ~HasId(2)
    /\ attempted = <<0, 1, 3>>
    /\ result.processed_guides = 3
    /\ result.failed_guides = 0
    /\ Cardinality(GuideEvents) = 3

\* ---- C16 -----------------------------------------------------------------

IsGuideEvent(e) == Status(e) = "processing" \/ "error" \in DOMAIN e
GuideEventSeq == SelectSeq(sent, IsGuideEvent)

\* The per-guide event e reports the guide at loop index j.
Reports(e, j) ==
    LET g == GuideAt(j)
    IN  IF "error" \in DOMAIN e
        THEN e.error[2] = Get(g, "guideid", None)
        ELSE e.current_guide = Get(g, "title", <<"Guide", Get(g, "guideid", None)>>)

\* C16: guides are ingested strictly one at a time: when the step of a guide
\* starts, every guide attempted before has had its progress or error event
\* emitted, and at most one guide is ever between its step and its event; the
\* k-th per-guide event reports the k-th guide attempted; processed_guides
\* never decreases from one emitted event to the next and grows by at most one.
C16_OneAtATime ==
    LET ges == GuideEventSeq
    IN  /\ pc = "process_guide" => Len(ges) = Len(attempted)
        /\ pc \in {"progress", "error"} => Len(ges) = Len(attempted) - 1
        /\ Len(attempted) - Len(ges) \in {0, 1}
        /\ \A k \in 1..Len(ges) : Reports(ges[k], attempted[k])
        /\ \A k \in 1..(Len(sent) - 1) :
              /\ sent[k].processed_guides <= sent[k + 1].processed_guides
              /\ sent[k + 1].processed_guides <= sent[k].processed_guides + 1

C16_Witness ==
    /\ EndedAs("completed")
    /\ attempted = <<0, 1, 2>>
    /\ FailedIndices = {1}
    /\ Len(GuideEventSeq) = 3
    /\ Status(GuideEventSeq[1]) = "processing"
    /\ "error" \in DOMAIN GuideEventSeq[2]
    /\ GuideEventSeq[3].processed_guides = 2
    /\ sent[Len(sent)].processed_guides = 2

\* ---- C14 -----------------------------------------------------------------

\* The listing loop has ended without raising.
Listed == pc = "update_progress" \/ sent # <<>>

\* C14: the listing asks for pages at offsets 0, PageSize, 2*PageSize, ...
\* with limit PageSize; while it is under way every page received was full
\* and the list is the concatenation of the pages; it stops at the first
\* empty or short page, so that for a catalog of n guides it has asked for
\* n \div PageSize + 1 pages and the list is the catalog, n entries long
\* (n = 0 and n a multiple of PageSize included), and the total-known event
\* reports total_guides = n.
C14_Paging ==
    /\ \A k \in 1..Len(requests) :
          requests[k] = [offset |-> (k - 1) * PageSize, limit |-> PageSize]
    /\ pc = "fetch_list"
          => /\ offset = Len(requests) * PageSize
             /\ offset <= Len(catalog)
             /\ all_guides = SubSeq(catalog, 1, offset)
    /\ Listed
          => /\ all_guides = catalog
             /\ Len(all_guides) = Len(catalog)
             /\ Len(requests) = (Len(catalog) \div PageSize) + 1
             /\ sent # <<>> => sent[1].total_guides = Len(catalog)

C14_Witness ==
    /\ sent # <<>>
    /\ Len(catalog) = 2 * PageSize
    /\ Len(all_guides) = 2 * PageSize
    /\ requests = << [offset |-> 0, limit |-> PageSize],
                     [offset |-> PageSize, limit |-> PageSize],
                     [offset |-> 2 * PageSize, limit |-> PageSize] >>
    /\ sent[1].total_guides = 2 * PageSize

\* ---- C17 -----------------------------------------------------------------

Returned(n) == steps[n].pc = "returned"
SourcePoints(src) == {p \in index : p.payload.source = src}
OwnPoints(n) == {PointOf(steps[n], k) : k \in 1..Len(steps[n].chunks)}
HasCall(n, op) == \E k \in 1..Len(steps[n].calls) : steps[n].calls[k].op = op

\* Every step on the source of step n has returned for the same guide and the
\* same chunks as step n.
SameIngestion(n) ==
    \A m \in StepNos :
        steps[m].source_id = steps[n].source_id
            => /\ Returned(m)
               /\ steps[m].guide_id = steps[n].guide_id
               /\ steps[m].chunks = steps[n].chunks

\* C17: a point id is a function of the source id and the chunk index alone;
\* when the step has run once or twice for a source with the same chunks,
\* starting from an empty index, the index holds for that source exactly
\* len(chunks) points, the k-th holding text and payload of chunk k.
C17_Idempotent ==
    /\ \A p \in index : \E k \in 0..(MaxChunks - 1) : p.id = PointId(p.payload.source, k)
    /\ \A n \in StepNos :
          SameIngestion(n)
              => /\ SourcePoints(steps[n].source_id) = OwnPoints(n)
                 /\ Cardinality(SourcePoints(steps[n].source_id)) = Len(steps[n].chunks)

C17_Witness ==
    /\ Returned(1) /\ Returned(2)
    /\ steps[1].source_id = steps[2].source_id
    /\ steps[1].chunks = <<"a", "b">>
    /\ steps[2].chunks = <<"a", "b">>
    /\ steps[1].written = 2 /\ steps[2].written = 2
    /\ Cardinality(index) = 2

\* ---- C18 -----------------------------------------------------------------

\* The sources the steps write to, the steps on a source, and the chunk
\* positions of the source that a step has written.
SourceIds == {steps[n].source_id : n \in StepNos}
StepsOn(src) == {n \in StepNos : steps[n].source_id = src}
WrittenOn(src) == UNION {1..steps[n].written : n \in StepsOn(src)}

\* C18: however the writes of two steps interleave, the index holds at most
\* one point per id, the points of a source are exactly one per chunk index
\* written on that source, and the point of a (source, chunk index) pair is
\* whole: it is the point one of the steps on that source wrote for that
\* chunk index.
C18_LastWriteWins ==
    /\ \A p, q \in index : p.id = q.id => p = q
    /\ \A p \in index : p.payload.source \in SourceIds
    /\ \A src \in SourceIds :
          /\ Cardinality(SourcePoints(src)) = Cardinality(WrittenOn(src))
          /\ \A k \in WrittenOn(src) :
                \E p \in SourcePoints(src) :
                   /\ p.id = PointId(src, k - 1)
                   /\ \E n \in StepsOn(src) : steps[n].written >= k /\ p = PointOf(steps[n], k)

C18_Witness ==
    /\ Returned(1) /\ Returned(2)
    /\ steps[1].source_id = steps[2].source_id
    /\ steps[1].chunks = <<"a", "a">>
    /\ steps[2].chunks = <<"b", "b">>
    /\ index = {PointOf(steps[1], 1), PointOf(steps[2], 2)}

\* ---- C19 -----------------------------------------------------------------

\* C19: on both paths, a step whose guide gave zero chunks calls neither the
\* embedding provider nor the index upsert and returns a count of 0.
C19_ZeroChunksNoCalls ==
    \A n \in StepNos :
        (steps[n].loaded /\ steps[n].chunks = <<>>)
            => /\ ~HasCall(n, "invoke_model")
               /\ ~HasCall(n, "upsert")
               /\ steps[n].pc \in {"returned", "raised"}
                     => Returned(n) /\ steps[n].ret = 0

\* ---- C20 -----------------------------------------------------------------

\* The step ended before it called the index.
EndedBeforeUpsert(n) == steps[n].pc \in {"returned", "raised"} /\ ~HasCall(n, "upsert")

\* C20: a step calls its collaborators in the order fetch, embedding of
\* chunk 1, 2, ... , upsert; the upsert call is the last call, comes after all
\* chunks are embedded and carries one point per chunk; nothing is written
\* to the index outside an upsert call; a step that returns with chunks has
\* made exactly one upsert call and written all its points; a step whose
\* fetch or embedding failed ends with the exception and has written nothing.
C20_StepOrder ==
    \A n \in StepNos :
        LET st == steps[n]
        IN  /\ st.calls # <<>> => st.calls[1].op = "fetch_guide"
            /\ \A k \in 2..Len(st.calls) :
                  /\ st.calls[k].op \in {"invoke_model", "upsert"}
                  /\ st.loaded
                  /\ st.calls[k].op = "invoke_model" => st.calls[k].n = k - 1
                  /\ st.calls[k].op = "upsert"
                        => /\ k = Len(st.calls)
                           /\ k = Len(st.chunks) + 2
                           /\ st.calls[k].n = Len(st.chunks)
            /\ st.written > 0 => HasCall(n, "upsert")
            /\ (Returned(n) /\ st.chunks # <<>>)
                  => /\ Cardinality({k \in 1..Len(st.calls) : st.calls[k].op = "upsert"}) = 1
                     /\ st.written = Len(st.chunks)
                     /\ st.ret = Len(st.chunks)
            /\ (EndedBeforeUpsert(n) /\ ~(st.path = "saga" /\ st.loaded /\ st.chunks = <<>>))
                  => /\ st.pc = "raised"
                     /\ st.written = 0
                     /\ st.ret = -1

C20_Witness ==
    /\ Returned(1)
    /\ steps[1].path = "saga"
    /\ steps[1].calls = << Call("fetch_guide", steps[1].guide_id), Call("invoke_model", 1),
                           Call("invoke_model", 2), Call("upsert", 2) >>
    /\ steps[2].pc = "raised"
    /\ steps[2].path = "saga"
    /\ steps[2].source_id # steps[1].source_id
    /\ steps[2].calls = << Call("fetch_guide", steps[2].guide_id), Call("invoke_model", 1),
                           Call("invoke_model", 2) >>
    /\ index = OwnPoints(1)

\* ---- C21 -----------------------------------------------------------------

Aligned == alignPc = "aligned"

\* The number of chunks the sections 1..n give under the splitter's answers.
RECURSIVE ChunkCount(_, _, _)
ChunkCount(n, ts, split) ==
    IF n = 0 THEN 0
    ELSE ChunkCount(n - 1, ts, split) + (IF IsLong(ts[n]) THEN split[n] ELSE 1)

\* C21: load_and_chunk_guide_with_media returns as many image lists as
\* chunks, whatever number of sub-chunks (zero included) the splitter returns
\* for each long section; and the alignment of any m text sections with any
\* n image sections of the document (m # n included) gives as many image
\* lists as chunks, one chunk per short and split-many per long section among
\* the first min(m, n).
C21_EqualLengths ==
    Aligned
        => /\ Len(aligned.chunks) = Len(aligned.chunk_images)
           /\ Len(aligned.chunks) = ChunkCount(Len(text_sections), text_sections, aligned.split)
           /\ \A m \in 0..Len(text_sections), n \in 0..Len(image_sections) :
                 LET r == Align(SubSeq(text_sections, 1, m), SubSeq(image_sections, 1, n),
                                aligned.split)
                 IN  /\ Len(r.chunks) = Len(r.chunk_images)
                     /\ Len(r.chunks) = ChunkCount(Min(m, n), text_sections, aligned.split)

C21_Witness ==
    /\ Aligned
    /\ \E a, b \in DOMAIN aligned.split : aligned.split[a] = 0 /\ aligned.split[b] = 2
    /\ Len(text_sections) >= 4
    /\ Len(aligned.chunks) = Len(text_sections)
    /\ Len(aligned.chunk_images) = Len(text_sections)

\* ---- C22 -----------------------------------------------------------------

KindRank(kind) ==
    CASE kind = "Header" -> 1
      [] kind = "Introduction" -> 2
      [] kind = "Step" -> 3
      [] kind = "Conclusion" -> 4
      [] kind = "Parts" -> 5
      [] kind = "Tools" -> 6

\* The sections q are in the canonical order: one Header first, then at most
\* one Introduction, the steps in their order, then at most one Conclusion,
\* Parts and Tools section.
Canonical(q) ==
    /\ q # <<>>
    /\ q[1].kind = "Header"
    /\ \A a, b \in 1..Len(q) :
          a < b => \/ KindRank(q[a].kind) < KindRank(q[b].kind)
                   \/ q[a].kind = "Step" /\ q[b].kind = "Step" /\ q[a].no < q[b].no

\* C22: for every document on which both extractors return, the text sections
\* and the image sections are equally many, of the same kind (and the same
\* step) at every index, both in the canonical order, so that cutting both to
\* the shorter length removes nothing.
C22_SectionsAligned ==
    Aligned
        => /\ Len(text_sections) = Len(image_sections)
           /\ \A idx \in 1..Len(text_sections) :
                 /\ text_sections[idx].kind = image_sections[idx].kind
                 /\ text_sections[idx].no = image_sections[idx].no
           /\ Canonical(text_sections)
           /\ Canonical(image_sections)
           /\ LET max_len == Min(Len(text_sections), Len(image_sections))
              IN  /\ SubSeq(text_sections, 1, max_len) = text_sections
                  /\ SubSeq(image_sections, 1, max_len) = image_sections

C22_Witness ==
    /\ Aligned
    /\ [idx \in 1..Len(text_sections) |-> text_sections[idx].kind]
          = <<"Header", "Introduction", "Step", "Conclusion", "Parts", "Tools">>
    /\ [idx \in 1..Len(image_sections) |-> image_sections[idx].kind]
          = <<"Header", "Introduction", "Step", "Conclusion", "Parts", "Tools">>

\* ---- C23 -----------------------------------------------------------------

HasKind(q, kind) == \E idx \in 1..Len(q) : q[idx].kind = kind
NonBlank(d, field) == field \in DOMAIN d /\ Strip(d[field]).len > 0
NonEmptyList(d, field) == field \in DOMAIN d /\ d[field] # <<>>

\* C23: whenever extract_guide_text returns, there is exactly one Header
\* section; an Introduction (Conclusion) section is there exactly if the
\* rendered field is not blank after trimming, a Parts (Tools) section exactly
\* if the list is not empty; every step with a non-empty rendered line has its
\* Step section.
C23_SectionInclusion ==
    text_sections # <<>>
        => /\ Cardinality({idx \in 1..Len(text_sections) : text_sections[idx].kind = "Header"}) = 1
           /\ HasKind(text_sections, "Introduction") <=> NonBlank(doc, "introduction_rendered")
           /\ HasKind(text_sections, "Conclusion") <=> NonBlank(doc, "conclusion_rendered")
           /\ HasKind(text_sections, "Parts") <=> NonEmptyList(doc, "parts")
           /\ HasKind(text_sections, "Tools") <=> NonEmptyList(doc, "tools")
           /\ \A k \in 1..Len(doc.steps) :
                 (\E j \in 1..Len(doc.steps[k].lines) : doc.steps[k].lines[j] > 0)
                     => \E idx \in 1..Len(text_sections) :
                           text_sections[idx].kind = "Step" /\ text_sections[idx].no = k

C23_Witness ==
    /\ Aligned
    /\ "introduction_rendered" \in DOMAIN doc
    /\ doc.introduction_rendered = Text(3, 0)
    /\ Len(doc.steps) = 2
    /\ doc.steps[1].lines = <<10, 0>>
    /\ doc.steps[2].lines = <<>>
    /\ [idx \in 1..Len(text_sections) |-> text_sections[idx].kind] = <<"Header", "Step", "Step">>

\* ---- C24 -----------------------------------------------------------------

\* C24: a section is handed to the splitter exactly if its text is longer
\* than ChunkLimit characters; a section of up to ChunkLimit characters is one
\* chunk, the section's text unchanged; a longer section gives the sub-chunks
\* the splitter returned; every chunk carries the image list of the section
\* it came from, unchanged.
C24_SplitRule ==
    Aligned
        => /\ DOMAIN aligned.split
                 = {idx \in 1..Len(text_sections) : text_sections[idx].len > ChunkLimit}
           /\ \A idx \in 1..Len(text_sections) :
                 LET own == {c \in 1..Len(aligned.chunks) : aligned.parent[c] = idx}
                     sec == text_sections[idx]
                 IN  /\ sec.len <= ChunkLimit
                           => Cardinality(own) = 1 /\ \A c \in own : aligned.chunks[c] = sec
                     /\ sec.len > ChunkLimit
                           => /\ Cardinality(own) = aligned.split[idx]
                              /\ \A c \in own : aligned.chunks[c] \in
                                    {Part(sec, j) : j \in 1..aligned.split[idx]}
                     /\ \A c \in own : aligned.chunk_images[c] = image_sections[idx].images

C24_Witness ==
    /\ Aligned
    /\ Len(text_sections) = 3
    /\ text_sections[2].len = ChunkLimit
    /\ text_sections[3].len = ChunkLimit + 1
    /\ image_sections[3].images = <<PyStr("u1"), PyStr("u2")>>
    /\ aligned.chunks = <<text_sections[1], text_sections[2],
                          Part(text_sections[3], 1), Part(text_sections[3], 2)>>
    /\ aligned.chunk_images = <<<<>>, <<>>, <<PyStr("u1"), PyStr("u2")>>,
                                <<PyStr("u1"), PyStr("u2")>>>>

\* ---- C25 -----------------------------------------------------------------

\* The URLs the claim names for a step: the non-empty original URLs of the
\* entries of an image block's data list, in order; nothing otherwise.
RECURSIVE NonEmptyUrls(_)
NonEmptyUrls(items) ==
    IF items = <<>> THEN <<>>
    ELSE (IF items[1].t = "dict" /\ "original" \in DOMAIN items[1].v
             /\ items[1].v.original.t = "str" /\ items[1].v.original.v # ""
          THEN <<items[1].v.original>> ELSE <<>>) \o NonEmptyUrls(Tail(items))

ClaimedImages(st) ==
    IF /\ "media" \in DOMAIN st
       /\ st.media.t = "dict"
       /\ "type" \in DOMAIN st.media.v
       /\ st.media.v.type = PyStr("image")
       /\ "data" \in DOMAIN st.media.v
       /\ st.media.v.data.t = "list"
    THEN NonEmptyUrls(st.media.v.data.v)
    ELSE <<>>

\* C25: for every document whose text sections were extracted, the image
\* sections are extracted too; Header, Introduction, Conclusion, Parts and
\* Tools sections have an empty image list; the image list of a Step section
\* holds the non-empty URLs of the step's image media block, in order, and is
\* empty for a step without media, with media of another type, or with
\* malformed media data.
C25_ImageLists ==
    text_sections # <<>>
        => /\ Aligned
           /\ \A idx \in 1..Len(image_sections) :
                 image_sections[idx].images =
                     IF image_sections[idx].kind = "Step"
                     THEN ClaimedImages(doc.steps[image_sections[idx].no])
                     ELSE <<>>

\* ---- C26 -----------------------------------------------------------------

Found == searchPc \in {"found", "retrieved"}

NoDuplicates(q) == \A a, b \in 1..Len(q) : a # b => q[a] # q[b]

\* C26: whatever QdrantStorage.search returns has as many image lists and as
\* many guide records as contexts, and its sources and guide_ids hold no value
\* twice.
C26_AggregateShape ==
    Found
        => /\ Len(found.images_per_context) = Len(found.contexts)
           /\ Len(found.guide_info) = Len(found.contexts)
           /\ NoDuplicates(found.sources)
           /\ NoDuplicates(found.guide_ids)

C26_Witness ==
    /\ searchPc = "found"
    /\ Len(results) = 3
    /\ Len(found.contexts) = 3
    /\ Len(found.images_per_context) = 3
    /\ Len(found.guide_info) = 3
    /\ found.sources = <<PyStr("s1")>>
    /\ found.guide_ids = <<PyInt(1)>>
    /\ \E k \in 1..3 : ImagesOf(results[k]).t = "dict"

\* ---- C27 -----------------------------------------------------------------

\* The point has a payload with a non-empty text.
HasText(r) ==
    /\ "payload" \in DOMAIN r
    /\ r.payload.t = "dict"
    /\ "text" \in DOMAIN r.payload.v
    /\ r.payload.v.text # PyStr("")

WithText(rs) == SelectSeq(rs, HasText)

\* C27: the contexts are the texts of the points that have a non-empty text,
\* in the order of the results, equal texts kept; the points without payload
\* or with an empty or missing text, and only they, add nothing.
C27_KeptTexts ==
    Found
        => LET kept == WithText(results)
           IN  found.contexts = [k \in 1..Len(kept) |-> kept[k].payload.v.text]

C27_Witness ==
    /\ searchPc = "found"
    /\ Len(results) = 3
    /\ HasText(results[1])
    /\ "payload" \in DOMAIN results[2]
    /\ results[2].payload.t = "dict"
    /\ "text" \in DOMAIN results[2].payload.v
    /\ results[2].payload.v.text = PyStr("")
    /\ HasText(results[3])
    /\ found.contexts = <<PyStr("a"), PyStr("a")>>

\* ---- C28 -----------------------------------------------------------------

Field(r, key, default) ==
    IF key \in DOMAIN r.payload.v THEN r.payload.v[key] ELSE default

IsTruthyId(x) == x # PyNull /\ x # PyInt(0)

\* C28: the guide records are, index by index, the records {guide_id, title,
\* url, source} of the points with a text, also of a point without guide_id;
\* guide_ids holds exactly the guide_id values of those points that are
\* present, not null and not zero; sources holds exactly their source values.
C28_GuideInfo ==
    Found
        => LET kept == WithText(results)
           IN  /\ Len(found.guide_info) = Len(kept)
               /\ \A k \in 1..Len(kept) :
                     found.guide_info[k] =
                         [guide_id |-> Field(kept[k], "guide_id", PyNull),
                          title    |-> Field(kept[k], "guide_title", PyNull),
                          url      |-> Field(kept[k], "guide_url", PyNull),
                          source   |-> Field(kept[k], "source", PyStr(""))]
               /\ {found.guide_ids[k] : k \in 1..Len(found.guide_ids)}
                     = {x \in {Field(kept[k], "guide_id", PyNull) : k \in 1..Len(kept)} :
                           IsTruthyId(x)}
               /\ {found.sources[k] : k \in 1..Len(found.sources)}
                     = {Field(kept[k], "source", PyStr("")) : k \in 1..Len(kept)}

C28_Witness ==
    /\ searchPc = "found"
    /\ Len(results) = 3
    /\ \A k \in 1..3 : HasText(results[k])
    /\ "guide_id" \notin DOMAIN results[1].payload.v
    /\ Field(results[2], "guide_id", PyNull) = PyInt(0)
    /\ Field(results[3], "guide_id", PyNull) = PyInt(2)
    /\ Len(found.guide_info) = 3
    /\ found.guide_info[1].guide_id = PyNull
    /\ found.guide_ids = <<PyInt(2)>>
    /\ Len(found.sources) = 2

\* ---- C29 -----------------------------------------------------------------

\* The image list the claim names for a point.
RECURSIVE NonEmptyStrings(_)
NonEmptyStrings(q) ==
    IF q = <<>> THEN <<>>
    ELSE (IF q[1] \in {PyNull, PyStr(""), PyInt(0)} THEN <<>> ELSE <<Str(q[1])>>)
             \o NonEmptyStrings(Tail(q))

ClaimedImageList(r) ==
    IF "images" \in DOMAIN r.payload.v /\ r.payload.v.images.t = "list"
    THEN NonEmptyStrings(r.payload.v.images.v)
    ELSE <<>>

\* C29: the aggregation of the results the index returned never raises; the
\* image list of a point with a text is empty when its images are missing,
\* null or not a list, and holds the non-empty entries as strings, in order,
\* when they are a list; a point without payload adds nothing.
C29_NeverRaises ==
    /\ searchPc # "raised"
    /\ Found
          => LET kept == WithText(results)
             IN  /\ Len(found.images_per_context) = Len(kept)
                 /\ \A k \in 1..Len(kept) :
                       found.images_per_context[k] = ClaimedImageList(kept[k])

\* ---- C30 -----------------------------------------------------------------

\* C30: the result _retrieve_context returns has as many image lists and as
\* many guide records as contexts.
C30_ResultShape ==
    searchPc = "retrieved"
        => /\ Len(retrieved.images_per_context) = Len(retrieved.contexts)
           /\ Len(retrieved.guide_info) = Len(retrieved.contexts)

\* ---- C31 -----------------------------------------------------------------

\* C31: a step in which search, list_guides or count returns (or raises)
\* leaves the set of points, with their vectors and payloads, as it was, at
\* any point of the ingestion steps under way; the set of points changes only
\* when an ingestion step stores a point of its upsert.
C31_ReadOnly ==
    [][/\ reads' # reads => index' = index
       /\ index' # index
             => /\ reads' = reads
                /\ \E n \in StepNos :
                      /\ steps'[n].written = steps[n].written + 1
                      /\ index' = Put(index, PointOf(steps[n], steps'[n].written))]_vars

C31_Witness ==
    /\ Cardinality(index) >= 2
    /\ \E n \in StepNos : steps[n].pc = "writing"
    /\ reads # <<>>
    /\ reads[1].op = "list_guides"
    /\ "returned" \in DOMAIN reads[1]
    /\ Len(reads[1].returned) = 2

\* ---- C32 -----------------------------------------------------------------

ChatCalls(op, ok) == {k \in 1..Len(chat.calls) : chat.calls[k].op = op /\ chat.calls[k].ok = ok}
ChatCalled(op) == \E k \in 1..Len(chat.calls) : chat.calls[k].op = op

\* C32: when the embedding or the vector search of a chat request failed, the
\* reply is the error 'Failed to search knowledge base.' and the answer
\* generator was not called; when the answer generation failed, the reply is
\* 'Failed to generate an answer.'; when the fetch of a source guide failed,
\* the query still succeeds and source_guides holds exactly the guides whose
\* fetch returned, in the order of their fetches.
C32_ChatErrors ==
    (chat # <<>> /\ chat.pc = "done")
        => /\ (ChatCalls("embed_texts", FALSE) # {} \/ ChatCalls("search", FALSE) # {})
                 => /\ chat.reply = [status |-> 500,
                                     detail |-> "Failed to search knowledge base."]
                    /\ ~ChatCalled("invoke_model")
           /\ ChatCalls("invoke_model", FALSE) # {}
                 => chat.reply = [status |-> 502, detail |-> "Failed to generate an answer."]
           /\ ChatCalled("fetch_guide")
                 => /\ chat.reply.status = 200
                    /\ LET ok == SelectSeq(chat.calls,
                                           LAMBDA c : c.op = "fetch_guide" /\ c.ok)
                       IN  [k \in 1..Len(chat.reply.source_guides) |->
                                chat.reply.source_guides[k].guide_id]
                              = [k \in 1..Len(ok) |-> ok[k].gid]

C32_Witness ==
    /\ chat # <<>>
    /\ chat.pc = "done"
    /\ chat.reply.status = 200
    /\ chat.calls = <<Called("embed_texts", TRUE), Called("search", TRUE),
                      Called("invoke_model", TRUE), Fetched(PyInt(1), FALSE),
                      Fetched(PyInt(2), TRUE)>>
    /\ Len(chat.reply.source_guides) = 1
    /\ chat.reply.source_guides[1].guide_id = PyInt(2)

\* ---- C33 -----------------------------------------------------------------

\* C33: every site-ingestion event the front end sends after a run that
\* returned paused with resume_offset i (the pause having been requested by
\* its pause button) carries resume_offset = i; and a stored offset is reset
\* to 0 only on the output of a run that completed the catalog.
C33_ResumeCapture ==
    front # <<>>
        => /\ \A k \in 1..Len(front.events) :
                 LET before == front.events[k].after
                 IN  (before.state = "Returned" /\ before.output.status = "paused")
                         => front.events[k].resume_offset = before.output.resume_offset
           /\ \A out \in front.resets : out.status = "completed"

\* ---- C34 -----------------------------------------------------------------

\* The loop indices the run has dealt with: those before the current index
\* and, while the event of the current guide is being sent, that one too.
VisitedCount == Cardinality(Visited) + (IF pc \in {"progress", "error"} THEN 1 ELSE 0)

SkippedCount == Cardinality({j \in Visited : ~HasId(j)})

\* C34: at every point of a run that has not failed, processed_guides plus
\* the number of error records plus the number of id-less guides skipped is
\* the number of loop indices visited (all of resume_offset..total_guides-1
\* when the run completes); processed_guides lies in 0..total_guides, and a
\* percentage is reported only with total_guides > 0 and never exceeds 100.
C34_Conservation ==
    /\ ~EndedAs("failed") => processed + Len(errors) + SkippedCount = VisitedCount
    /\ (EndedAs("completed") /\ ~PauseDelivered)
          => Visited = resume_offset..(total_guides - 1)
    /\ processed >= 0
    /\ processed <= total_guides
    /\ \A k \in 1..Len(sent) :
          "percentage" \in DOMAIN sent[k]
              => /\ total_guides > 0
                 /\ sent[k].percentage <= 1000
                 /\ sent[k].percentage = Percentage(sent[k].processed_guides, total_guides)

\* ---- C35 -----------------------------------------------------------------

\* C35: in every run, each attempted guide has increased exactly one of
\* processed_guides and the error list: together they count the attempted
\* guides once each, also when the progress event of a guide could not be
\* sent.
C35_CountedOnce ==
    ~EndedAs("failed") => processed + Len(errors) = Len(attempted)

\* ---- C36 -----------------------------------------------------------------

\* The step stored every chunk it had loaded, at least one, and returned
\* their count.
StoredAll(n) ==
    /\ Returned(n)
    /\ steps[n].chunks # <<>>
    /\ steps[n].written = Len(steps[n].chunks)
    /\ steps[n].ret = Len(steps[n].chunks)

\* C36: when the steps for one source id have run one after the other and
\* all have returned successfully, whatever their chunk counts, the index
\* holds for that source as many points as the most recent step had chunks:
\* no point of an earlier step is left over.
C36_NoStalePoints ==
    \A n \in StepNos :
        (/\ \A m \in StepNos : Ended(m)
         /\ \A m \in 1..n : steps[m].source_id = steps[n].source_id => StoredAll(m)
         /\ \A m \in (n + 1)..2 : steps[m].source_id # steps[n].source_id)
            => Cardinality(SourcePoints(steps[n].source_id)) = Len(steps[n].chunks)

\* ---- C37 -----------------------------------------------------------------

\* The run returns a result with status paused or completed.
C37_ReturnsResult == <>(result.status \in Terminal)

\* C37: when every host step returns or raises, every run ends: it returns
\* paused or completed, or it fails with the exception of a host step outside
\* the per-guide try block.  The listing takes at most one request more than
\* the catalog has full pages, and a run whose resume_offset is at or beyond
\* the end of the catalog ingests no guide and is not paused.
C37_Terminates ==
    /\ <>RunEnded
    /\ [](RunEnded => result.status \in Terminal \cup {"failed"})
    /\ [](Len(requests) <= (Len(catalog) \div PageSize) + 1)
    /\ [](resume_offset >= Len(catalog) => attempted = <<>> /\ result.status # "paused")

C37_Witness ==
    /\ EndedAs("completed")
    /\ total_guides = PageSize
    /\ Len(requests) = 2
    /\ resume_offset >= total_guides
    /\ attempted = <<>>

====
